---- MODULE Spec2Model ----
(***************************************************************************)
(* A model of the rscript host runtime (src/src/lib.rs, src/src/error.rs): *)
(* the script registry of ScriptManager, discovery over a directory        *)
(* (add_scripts_by_path / add_dynamic_scripts_by_path), the lazy fan-out   *)
(* iterator returned by ScriptManager::trigger, the direct Script::trigger *)
(* and the three transports behind Script::trigger_internal.               *)
(***************************************************************************)
EXTENDS Naturals, Sequences, FiniteSets, TLC

VARIABLES
    scripts,    \* ScriptManager.scripts : Vec<Script>, in insertion order
    procs,      \* the child processes held by Daemon endpoints, by pid
    iter,       \* the iterator returned by ScriptManager::trigger, if one is alive
    effects,    \* what the latest operation did to the transports, in order
    lastCall,   \* the latest public operation and the value it returned
    touched,    \* the endpoints whose transport the live iterator has used
    dropped,    \* TRUE once the ScriptManager has been dropped
    children,   \* pipe level: the processes spawned, with their pipes, by pid
    host,       \* pipe level: where the host is in start_script / trigger_internal
    heap,       \* library level: the byte buffers behind the FFiData made so far
    ffi         \* library level: where a call into a library is

\* The variables of the pipe-level specification (PipeSpec)
pipeVars == <<children, host>>

\* The variables of the library-level specification (FfiSpec)
ffiVars == <<heap, ffi>>

wireVars == <<pipeVars, ffiVars>>

vars == <<scripts, procs, iter, effects, lastCall, touched, dropped, wireVars>>

----------------------------------------------------------------------------
(* Bounds of the model *)

MaxScripts == 2

----------------------------------------------------------------------------
(* Versions and version requirements (semver::Version, semver::VersionReq) *)

V010 == <<0, 1, 0>>
V020 == <<0, 2, 0>>
V030 == <<0, 3, 0>>
HostVersions == {V010, V020}

VersionLess(a, b) ==
    \/ a[1] < b[1]
    \/ a[1] = b[1] /\ a[2] < b[2]
    \/ a[1] = b[1] /\ a[2] = b[2] /\ a[3] < b[3]

ComparatorMatches(c, v) ==
    IF c.op = ">=" THEN ~VersionLess(v, c.v) ELSE VersionLess(v, c.v)

\* VersionReq::matches: the intersection of the comparators
Matches(req, v) == \A i \in 1..Len(req) : ComparatorMatches(req[i], v)

AtLeast(v) == <<[op |-> ">=", v |-> v]>>

----------------------------------------------------------------------------
(* Hooks (examples/shell/shell-api): NAME and the inputs tried *)

HookNames == {"Eval", "RandomNumber"}

HookInput(h) == IF h = "Eval" THEN "x" ELSE "()"

----------------------------------------------------------------------------
(* Result<_, Error> values *)

Ok(v) ==
    [ok |-> TRUE, err |-> "", cause |-> "", val |-> v,
     actual |-> <<>>, required |-> <<>>]

Err(kind, cause) ==
    [ok |-> FALSE, err |-> kind, cause |-> cause, val |-> <<>>,
     actual |-> <<>>, required |-> <<>>]

\* A faulty construction of the error with its two fields exchanged: C6 tells it apart
ScriptVersionMismatchExchanged(program_actual_version, program_required_version) ==
    [ok |-> FALSE, err |-> "ScriptVersionMismatch", cause |-> "", val |-> <<>>,
     actual |-> program_required_version, required |-> program_actual_version]

ScriptVersionMismatch(program_actual_version, program_required_version) ==
    [ok |-> FALSE, err |-> "ScriptVersionMismatch", cause |-> "", val |-> <<>>,
     actual |-> program_actual_version, required |-> program_required_version]

\* impl From<std::io::Error> for Error
FromIoError(cause) == Err("Io", cause)

\* impl From<bincode::Error> for Error
FromBincodeError(cause) == Err("Bincode", cause)

\* impl From<libloading::Error> for Error
FromLibloadingError(cause) == Err("DynamicLibError", cause)

----------------------------------------------------------------------------
(* The files a discovery directory may hold, and what each does when it    *)
(* is spawned or loaded.  The three scripts of examples/shell are there,   *)
(* with a daemon that needs a newer host, an executable script that        *)
(* reports the type DynamicLib, two files that are no scripts,             *)
(* a library without the SCRIPT symbol, a library that needs a host newer  *)
(* than any tried, a library for RandomNumber, and a sub-directory.         *)

DLL_EXTENSION == <<"so">>
NoExtension == <<>>

ScriptInfo(name, script_type, hooks, version_requirement) ==
    [name |-> name, script_type |-> script_type, hooks |-> hooks,
     version_requirement |-> version_requirement]

NoInfo == ScriptInfo("", "", <<>>, <<>>)

File(isFile, ext, spawns, greets, loads, hasSymbol, info) ==
    [isFile |-> isFile, ext |-> ext, spawns |-> spawns, greets |-> greets,
     loads |-> loads, hasSymbol |-> hasSymbol, info |-> info]

Executable(info) == File(TRUE, NoExtension, TRUE, TRUE, FALSE, FALSE, info)

Library(info) == File(TRUE, DLL_EXTENSION, FALSE, FALSE, TRUE, TRUE, info)

Paths ==
    {"evaluator", "randomize", "newer", "plugin", "notes.txt", "true",
     "libecho.so", "libnosym.so", "libnext.so", "libdice.so", "subdir"}

Files ==
    [p \in Paths |->
        CASE p = "evaluator" ->
               Executable(ScriptInfo("evaluator", "OneShot", <<"Eval">>, AtLeast(V010)))
          [] p = "randomize" ->
               Executable(ScriptInfo("randomize", "Daemon", <<"RandomNumber">>, AtLeast(V010)))
          [] p = "newer" ->
               Executable(ScriptInfo("newer", "Daemon", <<"Eval", "RandomNumber">>, AtLeast(V020)))
          [] p = "plugin" ->
               Executable(ScriptInfo("Echo", "DynamicLib", <<"Eval">>, AtLeast(V010)))
          [] p = "notes.txt" ->
               File(TRUE, <<"txt">>, FALSE, FALSE, FALSE, FALSE, NoInfo)
          [] p = "true" ->
               File(TRUE, NoExtension, TRUE, FALSE, FALSE, FALSE, NoInfo)
          [] p = "libecho.so" ->
               Library(ScriptInfo("Echo", "DynamicLib", <<"Eval">>, AtLeast(V010)))
          [] p = "libnosym.so" ->
               File(TRUE, DLL_EXTENSION, FALSE, FALSE, TRUE, FALSE, NoInfo)
          [] p = "libnext.so" ->
               Library(ScriptInfo("Next", "DynamicLib", <<"Eval">>, AtLeast(V030)))
          [] p = "libdice.so" ->
               Library(ScriptInfo("Dice", "DynamicLib", <<"RandomNumber">>, AtLeast(V010)))
          [] OTHER ->
               File(FALSE, NoExtension, FALSE, FALSE, FALSE, FALSE, NoInfo)]

\* The directories handed to discovery: read_dir lists the entries in the order given
Directory(exists, entries) == [exists |-> exists, entries |-> entries]

Dirs ==
    { Directory(FALSE, <<>>),
      Directory(TRUE, <<>>),
      Directory(TRUE, <<"evaluator", "libecho.so", "randomize">>),
      Directory(TRUE, <<"randomize", "newer", "evaluator">>),
      Directory(TRUE, <<"libecho.so", "subdir", "newer", "libnext.so">>),
      Directory(TRUE, <<"evaluator", "true", "randomize">>),
      Directory(TRUE, <<"notes.txt", "evaluator">>),
      Directory(TRUE, <<"libecho.so", "libnosym.so", "libecho.so">>) }

----------------------------------------------------------------------------
(* Transport effects: one record per spawn, pipe write, pipe read, library  *)
(* load, symbol lookup, library call or kill.  ep is the registry index of  *)
(* the endpoint the effect is for (0 during discovery).                     *)

Effect(op, ep, pid, path, data, ok) ==
    [op |-> op, ep |-> ep, pid |-> pid, path |-> path, data |-> data, ok |-> ok]

----------------------------------------------------------------------------
(* Endpoints *)

Daemon(child) == [kind |-> "Daemon", child |-> child, path |-> ""]
OneShot(path) == [kind |-> "OneShot", child |-> 0, path |-> path]
DynamicLib(lib) == [kind |-> "DynamicLib", child |-> 0, path |-> lib]

Script(script, metadata, state) ==
    [script |-> script, metadata |-> metadata, state |-> state]

NoScript == Script(OneShot(""), NoInfo, "Inactive")

Process(path) == [path |-> path, alive |-> TRUE]

----------------------------------------------------------------------------
(* Discovery, executable transport: start_script (lib.rs 137-170)          *)

\* What start_script returns, with the transport effects it had and the
\* child it left running in a Daemon endpoint (none otherwise).
Started(res, script, eff, spawned) ==
    [res |-> res, script |-> script, eff |-> eff, spawned |-> spawned]

\* A faulty start_script that leaves out the version check: C5 tells it apart
start_script_unchecked(path, version, pid) ==
    LET f == Files[path]
        spawn(ok) == Effect("spawn", 0, IF ok THEN pid ELSE 0, path, "", ok)
        greet == Effect("write", 0, pid, path, "Greeting", TRUE)
        recv(ok) == Effect("read", 0, pid, path, "ScriptInfo", ok)
        metadata == f.info
    IN  IF ~f.spawns
        THEN Started(FromIoError("spawn"), NoScript, <<spawn(FALSE)>>, <<>>)
        ELSE IF ~f.greets
        THEN Started(FromBincodeError("UnexpectedEof"), NoScript,
                     <<spawn(TRUE), greet, recv(FALSE)>>, <<>>)
        ELSE IF metadata.script_type = "Daemon"
        THEN Started(Ok(<<>>), Script(Daemon(pid), metadata, "Active"),
                     <<spawn(TRUE), greet, recv(TRUE)>>, <<Process(path)>>)
        ELSE Started(Ok(<<>>), Script(OneShot(path), metadata, "Active"),
                     <<spawn(TRUE), greet, recv(TRUE)>>, <<>>)

start_script(path, version, pid) ==
    LET f == Files[path]
        spawn(ok) == Effect("spawn", 0, IF ok THEN pid ELSE 0, path, "", ok)
        greet == Effect("write", 0, pid, path, "Greeting", TRUE)
        recv(ok) == Effect("read", 0, pid, path, "ScriptInfo", ok)
        metadata == f.info
    IN  IF ~f.spawns
        THEN \* Command::spawn()? fails
             Started(FromIoError("spawn"), NoScript, <<spawn(FALSE)>>, <<>>)
        ELSE IF ~f.greets
        THEN \* the child writes no ScriptInfo: deserialize_from(stdout)? fails
             Started(FromBincodeError("UnexpectedEof"), NoScript,
                     <<spawn(TRUE), greet, recv(FALSE)>>, <<>>)
        ELSE IF ~Matches(metadata.version_requirement, version)
        THEN Started(ScriptVersionMismatch(version, metadata.version_requirement),
                     NoScript, <<spawn(TRUE), greet, recv(TRUE)>>, <<>>)
        ELSE IF metadata.script_type = "Daemon"
        THEN Started(Ok(<<>>), Script(Daemon(pid), metadata, "Active"),
                     <<spawn(TRUE), greet, recv(TRUE)>>, <<Process(path)>>)
        ELSE Started(Ok(<<>>), Script(OneShot(path), metadata, "Active"),
                     <<spawn(TRUE), greet, recv(TRUE)>>, <<>>)

(* Discovery, library transport: load_dynamic_library (lib.rs 195-212)     *)

load_dynamic_library(path, version) ==
    LET f == Files[path]
        load(ok) == Effect("load", 0, 0, path, "", ok)
        symbol(ok) == Effect("symbol", 0, 0, path, "SCRIPT", ok)
        info == Effect("call", 0, 0, path, "script_info", TRUE)
        metadata == f.info
    IN  IF ~f.loads
        THEN Started(FromLibloadingError("load"), NoScript, <<load(FALSE)>>, <<>>)
        ELSE IF ~f.hasSymbol
        THEN Started(FromLibloadingError("symbol"), NoScript,
                     <<load(TRUE), symbol(FALSE)>>, <<>>)
        ELSE IF ~Matches(metadata.version_requirement, version)
        THEN Started(ScriptVersionMismatch(version, metadata.version_requirement),
                     NoScript, <<load(TRUE), symbol(TRUE), info>>, <<>>)
        ELSE Started(Ok(<<>>), Script(DynamicLib(path), metadata, "Active"),
                     <<load(TRUE), symbol(TRUE), info>>, <<>>)

\* What a discovery call leaves: its return value, the registry, the
\* children held, and the transport effects of the call.
Discovered(res, regs, ps, eff) ==
    [res |-> res, scripts |-> regs, procs |-> ps, eff |-> eff]

\* A faulty loop that goes on to the later entries after a failure and
\* reports the first error at the end: C7 tells it apart
RECURSIVE add_scripts_loop_collecting(_, _, _, _, _)
add_scripts_loop_collecting(entries, version, regs, ps, eff) ==
    IF entries = <<>>
    THEN Discovered(Ok(<<>>), regs, ps, eff)
    ELSE LET path == Head(entries)
             f == Files[path]
         IN  IF f.isFile /\ ~(f.ext # NoExtension /\ f.ext = DLL_EXTENSION)
             THEN LET r == start_script(path, version, Len(ps) + 1)
                  IN  IF r.res.ok
                      THEN add_scripts_loop_collecting(Tail(entries), version,
                                                       Append(regs, r.script),
                                                       ps \o r.spawned, eff \o r.eff)
                      ELSE LET rest == add_scripts_loop_collecting(
                                           Tail(entries), version, regs, ps, eff \o r.eff)
                           IN  Discovered(r.res, rest.scripts, rest.procs, rest.eff)
             ELSE add_scripts_loop_collecting(Tail(entries), version, regs, ps, eff)

\* A faulty loop that starts every regular file, whatever its extension:
\* C14 tells it apart
RECURSIVE add_scripts_loop_any_extension(_, _, _, _, _)
add_scripts_loop_any_extension(entries, version, regs, ps, eff) ==
    IF entries = <<>>
    THEN Discovered(Ok(<<>>), regs, ps, eff)
    ELSE LET path == Head(entries)
             f == Files[path]
         IN  IF f.isFile
             THEN LET r == start_script(path, version, Len(ps) + 1)
                  IN  IF r.res.ok
                      THEN add_scripts_loop_any_extension(Tail(entries), version,
                                                          Append(regs, r.script),
                                                          ps \o r.spawned, eff \o r.eff)
                      ELSE Discovered(r.res, regs, ps, eff \o r.eff)
             ELSE add_scripts_loop_any_extension(Tail(entries), version, regs, ps, eff)

\* The loop of add_scripts_by_path (lib.rs 172-184) over the entries left
RECURSIVE add_scripts_loop(_, _, _, _, _)
add_scripts_loop(entries, version, regs, ps, eff) ==
    IF entries = <<>>
    THEN Discovered(Ok(<<>>), regs, ps, eff)
    ELSE LET path == Head(entries)
             f == Files[path]
         IN  IF f.isFile /\ ~(f.ext # NoExtension /\ f.ext = DLL_EXTENSION)
             THEN LET r == start_script(path, version, Len(ps) + 1)
                  IN  IF r.res.ok
                      THEN add_scripts_loop(Tail(entries), version,
                                            Append(regs, r.script),
                                            ps \o r.spawned, eff \o r.eff)
                      ELSE Discovered(r.res, regs, ps, eff \o r.eff)
             ELSE add_scripts_loop(Tail(entries), version, regs, ps, eff)

\* The loop of add_dynamic_scripts_by_path (lib.rs 214-225)
RECURSIVE add_dynamic_scripts_loop(_, _, _, _, _)
add_dynamic_scripts_loop(entries, version, regs, ps, eff) ==
    IF entries = <<>>
    THEN Discovered(Ok(<<>>), regs, ps, eff)
    ELSE LET path == Head(entries)
             f == Files[path]
         IN  IF f.isFile /\ f.ext # NoExtension /\ f.ext = DLL_EXTENSION
             THEN LET r == load_dynamic_library(path, version)
                  IN  IF r.res.ok
                      THEN add_dynamic_scripts_loop(Tail(entries), version,
                                                    Append(regs, r.script),
                                                    ps, eff \o r.eff)
                      ELSE Discovered(r.res, regs, ps, eff \o r.eff)
             ELSE add_dynamic_scripts_loop(Tail(entries), version, regs, ps, eff)

add_scripts_by_path(dir, version, regs, ps) ==
    IF ~dir.exists
    THEN Discovered(FromIoError("read_dir"), regs, ps, <<>>)
    ELSE add_scripts_loop(dir.entries, version, regs, ps, <<>>)

add_dynamic_scripts_by_path(dir, version, regs, ps) ==
    IF ~dir.exists
    THEN Discovered(FromIoError("read_dir"), regs, ps, <<>>)
    ELSE add_dynamic_scripts_loop(dir.entries, version, regs, ps, <<>>)

----------------------------------------------------------------------------
(* Script (lib.rs 279-356)                                                  *)

is_active(s) == s.state = "Active"

is_listening_for(s, H) ==
    \E i \in 1..Len(s.metadata.hooks) : s.metadata.hooks[i] = H

\* The hook output a script that handles hook H writes for `input`
HookOutput(name, H, input) == <<name, H, input>>

\* What a dispatch returns, with the transport effects it had
Dispatched(res, eff) == [res |-> res, eff |-> eff]

BincodeOk(v) == [ok |-> TRUE, cause |-> "", val |-> v]
BincodeErr(cause) == [ok |-> FALSE, cause |-> cause, val |-> <<>>]

\* The closure trigger_hook_common (lib.rs 318-331) on child p: three
\* writes to its stdin, then one read from its stdout; it returns a
\* Result<Output, bincode::Error>, so a failed write is a bincode error.
trigger_hook_common(p, ep, pid, H, input) ==
    LET write(data, ok) == Effect("write", ep, pid, p.path, data, ok)
        read(ok) == Effect("read", ep, pid, p.path, "Output", ok)
    IN  IF ~p.alive
        THEN Dispatched(BincodeErr("BrokenPipe"), <<write("Execute", FALSE)>>)
        ELSE Dispatched(BincodeOk(HookOutput(Files[p.path].info.name, H, input)),
                        <<write("Execute", TRUE), write(H, TRUE),
                          write(input, TRUE), read(TRUE)>>)

\* `?` on the closure's result: From<bincode::Error> for Error
TriggerHookCommonResult(r) ==
    IF r.res.ok THEN Ok(r.res.val) ELSE FromBincodeError(r.res.cause)

trigger_internal(s, ep, H, input, ps) ==
    CASE s.script.kind = "Daemon" ->
           LET r == trigger_hook_common(ps[s.script.child], ep, s.script.child, H, input)
           IN  Dispatched(TriggerHookCommonResult(r), r.eff)
      [] s.script.kind = "OneShot" ->
           LET path == s.script.path
               pid == Len(ps) + 1
               spawn(ok) == Effect("spawn", ep, IF ok THEN pid ELSE 0, path, "", ok)
           IN  IF ~Files[path].spawns
               THEN Dispatched(FromIoError("spawn"), <<spawn(FALSE)>>)
               ELSE LET r == trigger_hook_common(Process(path), ep, pid, H, input)
                    IN  Dispatched(TriggerHookCommonResult(r), <<spawn(TRUE)>> \o r.eff)
      [] OTHER ->
           LET lib == s.script.path
               symbol(ok) == Effect("symbol", ep, 0, lib, "SCRIPT", ok)
               call == Effect("call", ep, 0, lib, "script", TRUE)
           IN  IF ~Files[lib].hasSymbol
               THEN Dispatched(FromLibloadingError("symbol"), <<symbol(FALSE)>>)
               ELSE Dispatched(Ok(HookOutput(Files[lib].info.name, H, input)),
                               <<symbol(TRUE), call>>)

\* A faulty Script::trigger that also asks for the endpoint to be Active:
\* C8 tells it apart
script_trigger_if_active(s, ep, H, input, ps) ==
    IF is_active(s) /\ is_listening_for(s, H)
    THEN trigger_internal(s, ep, H, input, ps)
    ELSE Dispatched(Err("ScriptIsNotListeningForHook", ""), <<>>)

\* A faulty Script::trigger that dispatches without asking whether the
\* endpoint listens for the hook: C9 tells it apart
script_trigger_unguarded(s, ep, H, input, ps) ==
    trigger_internal(s, ep, H, input, ps)

\* Script::trigger (lib.rs 306-312)
script_trigger(s, ep, H, input, ps) ==
    IF is_listening_for(s, H)
    THEN trigger_internal(s, ep, H, input, ps)
    ELSE Dispatched(Err("ScriptIsNotListeningForHook", ""), <<>>)

----------------------------------------------------------------------------
(* ScriptManager::trigger (lib.rs 229-240): the iterator                    *)
(*   self.scripts.iter_mut().filter_map(..)                                 *)
(* pos is the number of endpoints the inner iter_mut has passed; out is     *)
(* what the iterator has yielded so far, each element with the registry     *)
(* index it came from.                                                      *)

Iter(live, H, input, pos, out, done) ==
    [live |-> live, hook |-> H, input |-> input, pos |-> pos, out |-> out,
     done |-> done]

NoIter == Iter(FALSE, "", "", 0, <<>>, FALSE)

\* A faulty closure that forgets the Active/Inactive state: C1 tells it apart
filter_map_closure_any_state(s, H) == is_listening_for(s, H)

\* A faulty closure that forgets the hooks the endpoint listens for: C20
\* tells it apart
filter_map_closure_any_hook(s, H) == is_active(s)

\* The closure of filter_map: whether the endpoint is dispatched to
filter_map_closure(s, H) == is_active(s) /\ is_listening_for(s, H)

\* One call of the iterator's next(): the inner iterator is advanced until
\* the closure returns Some (found) or the registry is exhausted
Pulled(found, pos, from, res, eff) ==
    [found |-> found, pos |-> pos, from |-> from, res |-> res, eff |-> eff]

\* A faulty next() that ends the sequence once an element was an Err, as
\* collecting into a Result would: C3 tells it apart
RECURSIVE filter_map_next_until_error(_, _, _, _, _)
filter_map_next_until_error(regs, ps, pos, H, input) ==
    IF pos >= Len(regs) \/ \E k \in 1..Len(iter.out) : ~iter.out[k].res.ok
    THEN Pulled(FALSE, Len(regs), 0, Ok(<<>>), <<>>)
    ELSE LET s == regs[pos + 1]
         IN  IF is_active(s) /\ is_listening_for(s, H)
             THEN LET r == trigger_internal(s, pos + 1, H, input, ps)
                  IN  Pulled(TRUE, pos + 1, pos + 1, r.res, r.eff)
             ELSE filter_map_next_until_error(regs, ps, pos + 1, H, input)

\* A faulty next() that walks the registry from its end: C2 tells it apart
RECURSIVE filter_map_next_reversed(_, _, _, _, _)
filter_map_next_reversed(regs, ps, pos, H, input) ==
    IF pos >= Len(regs)
    THEN Pulled(FALSE, pos, 0, Ok(<<>>), <<>>)
    ELSE LET from == Len(regs) - pos
             s == regs[from]
         IN  IF is_active(s) /\ is_listening_for(s, H)
             THEN LET r == trigger_internal(s, from, H, input, ps)
                  IN  Pulled(TRUE, pos + 1, from, r.res, r.eff)
             ELSE filter_map_next_reversed(regs, ps, pos + 1, H, input)

RECURSIVE filter_map_next(_, _, _, _, _)
filter_map_next(regs, ps, pos, H, input) ==
    IF pos >= Len(regs)
    THEN Pulled(FALSE, pos, 0, Ok(<<>>), <<>>)
    ELSE LET s == regs[pos + 1]
         IN  IF filter_map_closure(s, H)
             THEN LET r == trigger_internal(s, pos + 1, H, input, ps)
                  IN  Pulled(TRUE, pos + 1, pos + 1, r.res, r.eff)
             ELSE filter_map_next(regs, ps, pos + 1, H, input)

Yielded(from, res) == [from |-> from, res |-> res]

----------------------------------------------------------------------------
(* The state machine *)

Call(op, ep, H, version, entries, res) ==
    [op |-> op, ep |-> ep, hook |-> H, version |-> version, entries |-> entries,
     res |-> res]

\* The endpoints a sequence of transport effects is for
EffectEndpoints(eff) == {eff[k].ep : k \in 1..Len(eff)}

\* Pipe level: the host's position (pc) in start_script or trigger_internal,
\* the host version, the endpoint start_script made (script), the Child the
\* host holds (child, 0 for none), the hook being dispatched, the system
\* calls of the current call in order (eff), the value the latest call
\* returned (res) and the number of dispatches made (calls)
HostAt(pc, version, script, child, hook, eff, res, calls) ==
    [pc |-> pc, version |-> version, script |-> script, child |-> child,
     hook |-> hook, eff |-> eff, res |-> res, calls |-> calls]

NoHost == HostAt("off", <<>>, NoScript, 0, "", <<>>, Ok(<<>>), 0)

\* Library level: the host's or the library's position (pc) in a call into
\* a library, the library and the hook of the call, the buffers passed in
\* and returned (indices into heap, the buffers of the latest call; 0 for
\* none), what the latest
\* FFiData::deserialize was asked and gave (got), the value the latest call
\* returned (res) and the number of calls made
FfiAt(pc, version, lib, hook, input, output, got, res, calls) ==
    [pc |-> pc, version |-> version, lib |-> lib, hook |-> hook, input |-> input,
     output |-> output, got |-> got, res |-> res, calls |-> calls]

NoFfi == FfiAt("off", <<>>, "", "", 0, 0, <<>>, Ok(<<>>), 0)

Init ==
    /\ scripts = <<>>
    /\ procs = <<>>
    /\ iter = NoIter
    /\ effects = <<>>
    /\ lastCall = Call("default", 0, "", <<>>, <<>>, Ok(<<>>))
    /\ touched = {}
    /\ dropped = FALSE
    /\ children = <<>>
    /\ host = NoHost
    /\ heap = <<>>
    /\ ffi = NoFfi

\* The manager can be used: it is alive and not borrowed by an iterator
Usable == ~dropped /\ ~iter.live

AddScriptsByPath(dir, version) ==
    /\ Usable
    /\ LET d == add_scripts_by_path(dir, version, scripts, procs)
       IN  /\ Len(d.scripts) <= MaxScripts
           /\ scripts' = d.scripts
           /\ procs' = d.procs
           /\ effects' = d.eff
           /\ lastCall' = Call("add_scripts_by_path", 0, "", version, dir.entries, d.res)
    /\ UNCHANGED <<iter, touched, dropped, wireVars>>

AddDynamicScriptsByPath(dir, version) ==
    /\ Usable
    /\ LET d == add_dynamic_scripts_by_path(dir, version, scripts, procs)
       IN  /\ Len(d.scripts) <= MaxScripts
           /\ scripts' = d.scripts
           /\ procs' = d.procs
           /\ effects' = d.eff
           /\ lastCall' = Call("add_dynamic_scripts_by_path", 0, "", version,
                               dir.entries, d.res)
    /\ UNCHANGED <<iter, touched, dropped, wireVars>>

\* The effects of dispatching to every matching endpoint after pos
RECURSIVE eager_effects(_, _, _, _, _)
eager_effects(regs, ps, pos, H, input) ==
    IF pos >= Len(regs)
    THEN <<>>
    ELSE LET s == regs[pos + 1]
             rest == eager_effects(regs, ps, pos + 1, H, input)
         IN  IF is_active(s) /\ is_listening_for(s, H)
             THEN trigger_internal(s, pos + 1, H, input, ps).eff \o rest
             ELSE rest

\* A faulty trigger that dispatches to every matching endpoint when it is
\* called, as collecting into a vector would: C4 tells it apart
TriggerEager(H) ==
    /\ Usable
    /\ iter' = Iter(TRUE, H, HookInput(H), 0, <<>>, FALSE)
    /\ effects' = eager_effects(scripts, procs, 0, H, HookInput(H))
    /\ lastCall' = Call("trigger", 0, H, <<>>, <<>>, Ok(<<>>))
    /\ touched' = EffectEndpoints(effects')
    /\ UNCHANGED <<scripts, procs, dropped, wireVars>>

\* ScriptManager::trigger: builds the iterator and dispatches nothing
Trigger(H) ==
    /\ Usable
    /\ iter' = Iter(TRUE, H, HookInput(H), 0, <<>>, FALSE)
    /\ effects' = <<>>
    /\ lastCall' = Call("trigger", 0, H, <<>>, <<>>, Ok(<<>>))
    /\ touched' = {}
    /\ UNCHANGED <<scripts, procs, dropped, wireVars>>

\* The consumer pulls the next element
IterNext ==
    /\ iter.live /\ ~iter.done
    /\ LET n == filter_map_next(scripts, procs, iter.pos, iter.hook, iter.input)
       IN  /\ iter' = [iter EXCEPT !.pos = n.pos,
                                   !.done = ~n.found,
                                   !.out = IF n.found
                                           THEN Append(@, Yielded(n.from, n.res))
                                           ELSE @]
           /\ effects' = n.eff
           /\ lastCall' = Call("next", n.from, iter.hook,
                               <<>>, <<>>, n.res)
           /\ touched' = touched \cup EffectEndpoints(n.eff)
    /\ UNCHANGED <<scripts, procs, dropped, wireVars>>

\* The consumer drops the iterator, consumed or not
IterDrop ==
    /\ iter.live
    /\ iter' = NoIter
    /\ effects' = <<>>
    /\ lastCall' = Call("drop_iter", 0, iter.hook, <<>>, <<>>, Ok(<<>>))
    /\ touched' = {}
    /\ UNCHANGED <<scripts, procs, dropped, wireVars>>

\* A faulty direct trigger that takes an endpoint whose dispatch failed out
\* of the registry: C19 tells it apart
ScriptTriggerRemovingOnError(i, H) ==
    /\ Usable
    /\ i \in 1..Len(scripts)
    /\ LET r == script_trigger(scripts[i], i, H, HookInput(H), procs)
       IN  /\ effects' = r.eff
           /\ lastCall' = Call("script_trigger", i, H, <<>>, <<>>, r.res)
           /\ scripts' = IF r.res.ok \/ r.eff = <<>> THEN scripts
                         ELSE SubSeq(scripts, 1, i - 1) \o SubSeq(scripts, i + 1, Len(scripts))
    /\ UNCHANGED <<procs, iter, touched, dropped, wireVars>>

\* scripts_mut()[i].trigger(&hook)
ScriptTrigger(i, H) ==
    /\ Usable
    /\ i \in 1..Len(scripts)
    /\ LET r == script_trigger(scripts[i], i, H, HookInput(H), procs)
       IN  /\ effects' = r.eff
           /\ lastCall' = Call("script_trigger", i, H, <<>>, <<>>, r.res)
    /\ UNCHANGED <<scripts, procs, iter, touched, dropped, wireVars>>

\* A faulty activate that leaves the state as it is: C25 tells it apart
activate_keeping_state(s) == s

activate(s) == [s EXCEPT !.state = "Active"]

deactivate(s) == [s EXCEPT !.state = "Inactive"]

Activate(i) ==
    /\ Usable
    /\ i \in 1..Len(scripts)
    /\ scripts' = [scripts EXCEPT ![i] = activate(@)]
    /\ effects' = <<>>
    /\ lastCall' = Call("activate", i, "", <<>>, <<>>, Ok(<<>>))
    /\ UNCHANGED <<procs, iter, touched, dropped, wireVars>>

Deactivate(i) ==
    /\ Usable
    /\ i \in 1..Len(scripts)
    /\ scripts' = [scripts EXCEPT ![i] = deactivate(@)]
    /\ effects' = <<>>
    /\ lastCall' = Call("deactivate", i, "", <<>>, <<>>, Ok(<<>>))
    /\ UNCHANGED <<procs, iter, touched, dropped, wireVars>>

\* The environment kills a daemon's child process
KillChild(pid) ==
    /\ pid \in 1..Len(procs)
    /\ procs[pid].alive
    /\ procs' = [procs EXCEPT ![pid].alive = FALSE]
    /\ UNCHANGED <<scripts, iter, effects, lastCall, touched, dropped, wireVars>>

\* Script::end (lib.rs 349-355): kill() on the Child of a Daemon endpoint; it
\* errs when the child has already exited, and the error is discarded
end(s, ep, ps) ==
    IF s.script.kind = "Daemon"
    THEN <<Effect("kill", ep, s.script.child, "", "", ps[s.script.child].alive)>>
    ELSE <<>>

\* A faulty drop that gives up at the first kill that fails: C13 tells it apart
RECURSIVE drop_loop_until_failure(_, _, _)
drop_loop_until_failure(regs, ps, i) ==
    IF i > Len(regs) THEN <<>>
    ELSE IF regs[i].script.kind = "Daemon" /\ ~ps[regs[i].script.child].alive
    THEN <<Effect("kill", i, regs[i].script.child, "", "", FALSE)>>
    ELSE (IF regs[i].script.kind = "Daemon"
          THEN <<Effect("kill", i, regs[i].script.child, "", "", TRUE)>>
          ELSE <<>>) \o drop_loop_until_failure(regs, ps, i + 1)

\* self.scripts.iter_mut().for_each(|script| script.end())
RECURSIVE drop_loop(_, _, _)
drop_loop(regs, ps, i) ==
    IF i > Len(regs) THEN <<>> ELSE end(regs[i], i, ps) \o drop_loop(regs, ps, i + 1)

\* Drop for ScriptManager (lib.rs 251-255)
DropManager ==
    /\ Usable
    /\ dropped' = TRUE
    /\ effects' = drop_loop(scripts, procs, 1)
    /\ procs' = [pid \in 1..Len(procs) |->
                    IF \E k \in 1..Len(effects') : effects'[k].pid = pid
                    THEN [procs[pid] EXCEPT !.alive = FALSE]
                    ELSE procs[pid]]
    /\ lastCall' = Call("drop", 0, "", <<>>, <<>>, Ok(<<>>))
    /\ UNCHANGED <<scripts, iter, touched, wireVars>>

Next ==
    \/ \E dir \in Dirs, version \in HostVersions : AddScriptsByPath(dir, version)
    \/ \E dir \in Dirs, version \in HostVersions : AddDynamicScriptsByPath(dir, version)
    \/ \E H \in HookNames : Trigger(H)
    \/ IterNext
    \/ IterDrop
    \/ \E i \in 1..Len(scripts), H \in HookNames : ScriptTrigger(i, H)
    \/ \E i \in 1..Len(scripts) : Activate(i)
    \/ \E i \in 1..Len(scripts) : Deactivate(i)
    \/ \E pid \in 1..Len(procs) : KillChild(pid)
    \/ DropManager

Spec == Init /\ [][Next]_vars

----------------------------------------------------------------------------
(* Properties of the fan-out                                               *)

\* H::NAME is one of endpoint e's metadata.hooks
Listens(e, H) ==
    H \in {scripts[e].metadata.hooks[j] : j \in DOMAIN scripts[e].metadata.hooks}

\* Endpoint e is Active and listening for H
Matching(e, H) == scripts[e].state = "Active" /\ Listens(e, H)

\* The positions of the yielded sequence whose result endpoint e produced
ResultsFrom(e) == {k \in 1..Len(iter.out) : iter.out[k].from = e}

\* C1: a fan-out for hook H consumed to completion holds exactly one result
\* of every endpoint that is Active and has H::NAME among its hooks, and
\* none of any other endpoint (so none at all when nobody listens for H);
\* before completion it holds at most one of the former and none of the latter.
C1_TriggerYieldsIffActiveAndListening ==
    iter.live =>
        /\ \A k \in 1..Len(iter.out) : iter.out[k].from \in 1..Len(scripts)
        /\ \A e \in 1..Len(scripts) :
              IF Matching(e, iter.hook)
              THEN /\ Cardinality(ResultsFrom(e)) <= 1
                   /\ iter.done => Cardinality(ResultsFrom(e)) = 1
              ELSE ResultsFrom(e) = {}

\* A completed fan-out over two endpoints of which exactly one matched
C1_Witness ==
    /\ iter.live /\ iter.done
    /\ Len(scripts) = 2
    /\ Len(iter.out) = 1
    /\ \E e \in 1..2 : Listens(e, iter.hook) /\ scripts[e].state = "Inactive"

\* C2: the k-th yielded result comes from the k-th endpoint, in insertion
\* order, that is Active and listening for H.  The order is fixed by the
\* registry and the hook alone, so it is the same in every trigger call
\* made while no endpoint is added or toggled.
C2_YieldedInInsertionOrder ==
    iter.live =>
        \A k \in 1..Len(iter.out) :
            LET e == iter.out[k].from
            IN  /\ e \in 1..Len(scripts)
                /\ Matching(e, iter.hook)
                /\ Cardinality({d \in 1..e : Matching(d, iter.hook)}) = k

\* Two results were yielded, the first by endpoint 1 and the second by endpoint 2
C2_Witness ==
    /\ iter.live
    /\ Len(iter.out) = 2
    /\ iter.out[1].from = 1
    /\ iter.out[2].from = 2


\* Endpoint e's transport can serve a dispatch: its daemon child is alive,
\* its executable can be spawned, or its library exports SCRIPT
Healthy(e) ==
    CASE scripts[e].script.kind = "Daemon" -> procs[scripts[e].script.child].alive
      [] scripts[e].script.kind = "OneShot" -> Files[scripts[e].script.path].spawns
      [] OTHER -> Files[scripts[e].script.path].hasSymbol

\* The matching endpoints the iterator has not reached yet
MatchingAhead == {e \in iter.pos + 1..Len(scripts) : Matching(e, iter.hook)}

\* C3: once the fan-out has yielded an Err, the next pull still dispatches
\* to the next matching endpoint and yields that endpoint's own result (Ok
\* iff its transport is healthy, and the very result a direct dispatch to it
\* returns); the sequence ends only when no matching endpoint is left.
C3_ErrorDoesNotAbortFanOut ==
    [][ ( /\ iter.live /\ ~iter.done
          /\ iter'.live /\ iter' # iter
          /\ \E k \in 1..Len(iter.out) : ~iter.out[k].res.ok )
        => IF MatchingAhead = {}
           THEN iter'.done /\ iter'.out = iter.out
           ELSE LET e == CHOOSE m \in MatchingAhead : \A o \in MatchingAhead : m <= o
                    direct == trigger_internal(scripts[e], e, iter.hook, iter.input, procs)
                IN  /\ ~iter'.done
                    /\ Len(iter'.out) = Len(iter.out) + 1
                    /\ SubSeq(iter'.out, 1, Len(iter.out)) = iter.out
                    /\ iter'.out[Len(iter'.out)].from = e
                    /\ iter'.out[Len(iter'.out)].res.ok = Healthy(e)
                    /\ iter'.out[Len(iter'.out)].res = direct.res ]_vars

\* The first element was an Err and the second one, of a later endpoint, an Ok
C3_Witness ==
    /\ iter.live
    /\ Len(iter.out) = 2
    /\ ~iter.out[1].res.ok
    /\ iter.out[2].res.ok
    /\ iter.out[1].from < iter.out[2].from

\* C4: trigger itself dispatches to no endpoint; while the iterator lives,
\* the only endpoints whose transport was used (written to, spawned, called)
\* are those whose element the consumer has pulled, each pull using the
\* transport of the endpoint it yields from and no other; dropping the
\* iterator, consumed or not, uses none.
C4_TriggerIsLazy ==
    /\ lastCall.op = "trigger" => effects = <<>> /\ touched = {}
    /\ iter.live => touched = {iter.out[k].from : k \in 1..Len(iter.out)}
    /\ lastCall.op = "next" =>
          /\ EffectEndpoints(effects) \subseteq {lastCall.ep}
          /\ lastCall.ep = 0 => effects = <<>>
    /\ lastCall.op = "drop_iter" => effects = <<>>

\* The consumer took the first element only: a later matching endpoint is untouched
C4_Witness ==
    /\ iter.live /\ ~iter.done
    /\ Len(iter.out) = 1
    /\ effects # <<>>
    /\ \E e \in MatchingAhead : e \notin touched


----------------------------------------------------------------------------
(* Properties of discovery                                                 *)

IsAdd(op) == op \in {"add_scripts_by_path", "add_dynamic_scripts_by_path"}

\* This step is a discovery call
AddStep ==
    /\ IsAdd(lastCall'.op)
    /\ <<scripts, lastCall, effects>>' # <<scripts, lastCall, effects>>

\* C5: an endpoint enters the registry only in a discovery call, and only if
\* its version_requirement matches the host version passed to that call,
\* whether the call then returns Ok or an error; no endpoint ever leaves.
C5_IncompatibleNeverRegistered ==
    [][ /\ Len(scripts') >= Len(scripts)
        /\ \A i \in Len(scripts) + 1..Len(scripts') :
              /\ AddStep
              /\ Matches(scripts'[i].metadata.version_requirement,
                         lastCall'.version) ]_vars

\* A discovery call met the daemon that needs host 0.2.0 with host 0.1.0: it
\* failed, and the registry holds the one script met before it
C5_Witness ==
    /\ lastCall.op = "add_scripts_by_path"
    /\ lastCall.version = V010
    /\ lastCall.entries = <<"randomize", "newer", "evaluator">>
    /\ lastCall.res.err = "ScriptVersionMismatch"
    /\ Len(scripts) = 1
    /\ scripts[1].metadata.name = "randomize"

\* The entry the latest discovery call handled last
LastEntry == effects[Len(effects)].path

\* The latest discovery call received the ScriptInfo of its last entry
LastHandshakeDone ==
    /\ effects[Len(effects)].ok
    /\ \/ effects[Len(effects)].op = "read"
       \/ effects[Len(effects)].op = "call"

\* C6: a discovery call, on either transport, that received a ScriptInfo
\* whose version_requirement does not match the host version returns
\* ScriptVersionMismatch, and whenever it returns ScriptVersionMismatch,
\* `actual` is the host version the caller passed and `required` is the
\* version requirement that script sent.
C6_MismatchCarriesBothVersions ==
    (IsAdd(lastCall.op) /\ effects # <<>>) =>
        LET sent == Files[LastEntry].info.version_requirement
        IN  /\ (LastHandshakeDone /\ ~Matches(sent, lastCall.version))
                  => lastCall.res.err = "ScriptVersionMismatch"
            /\ lastCall.res.err = "ScriptVersionMismatch"
                  => /\ LastHandshakeDone
                     /\ lastCall.res.actual = lastCall.version
                     /\ lastCall.res.required = sent
                     /\ ~Matches(sent, lastCall.version)

\* Library discovery with host 0.2.0 met the library that requires >=0.3.0
C6_Witness ==
    /\ lastCall.op = "add_dynamic_scripts_by_path"
    /\ lastCall.res.err = "ScriptVersionMismatch"
    /\ lastCall.res.actual = V020
    /\ lastCall.res.required = AtLeast(V030)

\* Discovery call op handles this directory entry
Eligible(op, path) ==
    /\ Files[path].isFile
    /\ (op = "add_dynamic_scripts_by_path") <=> (Files[path].ext = DLL_EXTENSION)

\* The handshake or the version check of this entry fails
EntryFails(op, path, version) ==
    \/ ~Matches(Files[path].info.version_requirement, version)
    \/ IF op = "add_scripts_by_path"
       THEN ~Files[path].spawns \/ ~Files[path].greets
       ELSE ~Files[path].loads \/ ~Files[path].hasSymbol

\* The error the failure of this entry is reported as
EntryError(op, path) ==
    IF op = "add_scripts_by_path"
    THEN IF ~Files[path].spawns THEN "Io"
         ELSE IF ~Files[path].greets THEN "Bincode"
         ELSE "ScriptVersionMismatch"
    ELSE IF ~Files[path].loads \/ ~Files[path].hasSymbol THEN "DynamicLibError"
         ELSE "ScriptVersionMismatch"

IsStart(eff) == eff.op \in {"spawn", "load"}

\* C7: a discovery call that fails on a directory entry returns at the first
\* failing entry, with the error of that entry: the entries spawned or
\* loaded are those it handles up to
\* and including that entry, in order, and none after it; the failing entry
\* is not registered; the endpoints registered before the call keep their
\* position and state and are followed by those of the entries before the
\* failing one; the children held are kept.
C7_DiscoveryErrorAborts ==
    [][ (AddStep /\ ~lastCall'.res.ok /\ lastCall'.res.cause # "read_dir") =>
        LET op == lastCall'.op
            entries == lastCall'.entries
            bad == {i \in 1..Len(entries) :
                       /\ Eligible(op, entries[i])
                       /\ EntryFails(op, entries[i], lastCall'.version)}
            f == CHOOSE i \in bad : \A j \in bad : i <= j
            Handled(path) == Eligible(op, path)
            before == SelectSeq(SubSeq(entries, 1, f - 1), Handled)
            started == SelectSeq(effects', IsStart)
        IN  /\ bad # {}
            /\ lastCall'.res.err = EntryError(op, entries[f])
            /\ [k \in 1..Len(started) |-> started[k].path] = Append(before, entries[f])
            /\ Len(scripts') = Len(scripts) + Len(before)
            /\ SubSeq(scripts', 1, Len(scripts)) = scripts
            /\ \A k \in 1..Len(before) :
                  /\ scripts'[Len(scripts) + k].metadata = Files[before[k]].info
                  /\ scripts'[Len(scripts) + k].state = "Active"
            /\ SubSeq(procs', 1, Len(procs)) = procs ]_vars

\* A call failed on its second entry of three: the endpoint of an earlier
\* call and the one of the first entry are registered, the third entry is not
C7_Witness ==
    /\ lastCall.op = "add_scripts_by_path"
    /\ ~lastCall.res.ok
    /\ lastCall.entries = <<"evaluator", "true", "randomize">>
    /\ Len(scripts) = 2
    /\ scripts[1].metadata.name = "Echo"
    /\ scripts[2].metadata.name = "evaluator"


----------------------------------------------------------------------------
(* Properties of the direct trigger and of a killed daemon                 *)

\* C8: Script::trigger on an endpoint that listens for H dispatches to the
\* endpoint's transport whether the endpoint is Active or Inactive (it uses
\* that transport and does not answer ScriptIsNotListeningForHook), whereas
\* the fan-out of ScriptManager::trigger yields nothing from an Inactive
\* endpoint and does not use its transport.
C8_DirectTriggerIgnoresState ==
    /\ (lastCall.op = "script_trigger" /\ Listens(lastCall.ep, lastCall.hook)) =>
          /\ effects # <<>>
          /\ EffectEndpoints(effects) = {lastCall.ep}
          /\ lastCall.res.err # "ScriptIsNotListeningForHook"
    /\ iter.live =>
          \A e \in 1..Len(scripts) :
              scripts[e].state = "Inactive" => ResultsFrom(e) = {} /\ e \notin touched

\* A direct trigger on an Inactive endpoint that listens for the hook returned Ok
C8_Witness ==
    /\ lastCall.op = "script_trigger"
    /\ scripts[lastCall.ep].state = "Inactive"
    /\ Listens(lastCall.ep, lastCall.hook)
    /\ lastCall.res.ok
    /\ effects # <<>>

\* C9: Script::trigger<H> on an endpoint whose metadata.hooks lacks H::NAME
\* returns Err(ScriptIsNotListeningForHook) and has no transport effect (no
\* write, no spawn, no library call); the registry, with the endpoint's
\* state, and the children are as before the call.
C9_NotListeningTouchesNothing ==
    [][ (lastCall'.op = "script_trigger" /\ ~Listens(lastCall'.ep, lastCall'.hook)) =>
          /\ lastCall'.res = Err("ScriptIsNotListeningForHook", "")
          /\ effects' = <<>>
          /\ <<lastCall, effects>>' # <<lastCall, effects>> =>
                scripts' = scripts /\ procs' = procs ]_vars

\* A direct trigger of a hook a live daemon does not listen for was refused
C9_Witness ==
    /\ lastCall.op = "script_trigger"
    /\ lastCall.res.err = "ScriptIsNotListeningForHook"
    /\ scripts[lastCall.ep].script.kind = "Daemon"
    /\ procs[scripts[lastCall.ep].script.child].alive
    /\ effects = <<>>

\* Endpoint e is a Daemon whose child process has been killed
DaemonKilled(e) ==
    /\ scripts[e].script.kind = "Daemon"
    /\ ~procs[scripts[e].script.child].alive

\* C10: a dispatch to a Daemon endpoint whose child was killed yields
\* Err(Io), the Io variant of Error, and a dispatch, in the same fan-out or
\* a later one, to any other endpoint whose transport is healthy yields Ok.
C10_KilledDaemonYieldsIo ==
    [][ (iter.live /\ iter'.live /\ Len(iter'.out) = Len(iter.out) + 1) =>
          LET y == iter'.out[Len(iter'.out)]
          IN  IF DaemonKilled(y.from)
              THEN ~y.res.ok /\ y.res.err = "Io"
              ELSE Healthy(y.from) => y.res.ok ]_vars

\* What does hold of a killed daemon: the dispatch yields an Err, of the
\* Bincode variant (the failed pipe write is wrapped in a bincode error),
\* and the other endpoints still yield Ok.
KilledDaemonYieldsBincode ==
    [][ (iter.live /\ iter'.live /\ Len(iter'.out) = Len(iter.out) + 1) =>
          LET y == iter'.out[Len(iter'.out)]
          IN  IF DaemonKilled(y.from)
              THEN ~y.res.ok /\ y.res.err = "Bincode" /\ y.res.cause = "BrokenPipe"
              ELSE Healthy(y.from) => y.res.ok ]_vars

----------------------------------------------------------------------------
(* The codec: bincode with its default options, as serialize_into and      *)
(* deserialize_from use it.  Integers are fixed-width little-endian, an     *)
(* enum is the u32 index of its variant, a string or a boxed slice is a    *)
(* u64 length followed by its elements, a struct is its fields in order, a  *)
(* unit struct is no byte at all.  A pipe holds bytes, not frames.          *)

\* str::as_bytes of the strings that travel
Utf8(s) ==
    CASE s = "evaluator" -> <<101, 118, 97, 108, 117, 97, 116, 111, 114>>
      [] s = "randomize" -> <<114, 97, 110, 100, 111, 109, 105, 122, 101>>
      [] s = "newer" -> <<110, 101, 119, 101, 114>>
      [] s = "Eval" -> <<69, 118, 97, 108>>
      [] s = "RandomNumber" -> <<82, 97, 110, 100, 111, 109, 78, 117, 109, 98, 101, 114>>
      [] s = "x" -> <<120>>
      [] s = ">=0.1.0" -> <<62, 61, 48, 46, 49, 46, 48>>
      [] s = ">=0.2.0" -> <<62, 61, 48, 46, 50, 46, 48>>
      [] s = ">=0.3.0" -> <<62, 61, 48, 46, 51, 46, 48>>
      [] s = "Echo" -> <<69, 99, 104, 111>>
      [] s = "Next" -> <<78, 101, 120, 116>>
      [] s = "Dice" -> <<68, 105, 99, 101>>
      [] OTHER -> <<>>

Strings ==
    {"evaluator", "randomize", "newer", "Eval", "RandomNumber", "x",
     ">=0.1.0", ">=0.2.0", ">=0.3.0", "Echo", "Next", "Dice", ""}

\* String::from_utf8 on the bytes read ("?" stands for any other text)
FromUtf8(bytes) ==
    IF \E s \in Strings : Utf8(s) = bytes
    THEN CHOOSE s \in Strings : Utf8(s) = bytes
    ELSE "?"

\* The value and the bytes of a fixed-width little-endian integer
RECURSIVE le_bytes(_, _)
le_bytes(width, n) ==
    IF width = 0 THEN <<>> ELSE <<n % 256>> \o le_bytes(width - 1, n \div 256)

\* (a value of 65536 or more is counted as 65536: no stream here is that long)
RECURSIVE le_value(_)
le_value(bytes) ==
    IF bytes = <<>> THEN 0
    ELSE IF Len(bytes) > 2
    THEN IF bytes[Len(bytes)] # 0
         THEN 65536
         ELSE le_value(SubSeq(bytes, 1, Len(bytes) - 1))
    ELSE Head(bytes) + 256 * le_value(Tail(bytes))

\* What a read of one value from a byte stream gives: the value and the
\* bytes left ("ok"), not enough bytes yet ("short"), or bytes that are no
\* value of the type ("bad")
Read(state, val, rest) == [state |-> state, val |-> val, rest |-> rest]

Skip(bytes, n) == SubSeq(bytes, n + 1, Len(bytes))

\* The element of a one-element set: The({f(r) : r \in {e}}) is f(e), with e
\* evaluated once
The(S) == CHOOSE x \in S : TRUE

deserialize_int(width, bytes) ==
    IF Len(bytes) < width
    THEN Read("short", 0, bytes)
    ELSE Read("ok", le_value(SubSeq(bytes, 1, width)), Skip(bytes, width))

\* enum Message and enum ScriptType: the index of the variant
serialize_Message(m) == le_bytes(4, IF m = "Greeting" THEN 0 ELSE 1)

Message_variant(n, bytes) ==
    IF n.state # "ok" THEN Read(n.state, "", bytes)
    ELSE IF n.val = 0 THEN Read("ok", "Greeting", n.rest)
    ELSE IF n.val = 1 THEN Read("ok", "Execute", n.rest)
    ELSE Read("bad", "", bytes)

deserialize_Message(bytes) ==
    The({Message_variant(n, bytes) : n \in {deserialize_int(4, bytes)}})

serialize_ScriptType(t) ==
    le_bytes(4, IF t = "OneShot" THEN 0 ELSE IF t = "Daemon" THEN 1 ELSE 2)

ScriptType_variant(n, bytes) ==
    IF n.state # "ok" THEN Read(n.state, "", bytes)
    ELSE IF n.val = 0 THEN Read("ok", "OneShot", n.rest)
    ELSE IF n.val = 1 THEN Read("ok", "Daemon", n.rest)
    ELSE IF n.val = 2 THEN Read("ok", "DynamicLib", n.rest)
    ELSE Read("bad", "", bytes)

deserialize_ScriptType(bytes) ==
    The({ScriptType_variant(n, bytes) : n \in {deserialize_int(4, bytes)}})

\* String and &str: the length in bytes, then the bytes
serialize_String(s) == le_bytes(8, Len(Utf8(s))) \o Utf8(s)

String_of_len(n, bytes) ==
    IF n.state # "ok" THEN Read(n.state, "", bytes)
    ELSE IF Len(n.rest) < n.val THEN Read("short", "", bytes)
    ELSE Read("ok", FromUtf8(SubSeq(n.rest, 1, n.val)), Skip(n.rest, n.val))

deserialize_String(bytes) ==
    The({String_of_len(n, bytes) : n \in {deserialize_int(8, bytes)}})

\* Box<[String]>: the number of strings, then each string
RECURSIVE serialize_strings(_)
serialize_strings(ss) ==
    IF ss = <<>> THEN <<>> ELSE serialize_String(Head(ss)) \o serialize_strings(Tail(ss))

serialize_slice(ss) == le_bytes(8, Len(ss)) \o serialize_strings(ss)

RECURSIVE deserialize_strings(_, _, _)
strings_after(s, bytes, n, got) ==
    IF s.state # "ok" THEN Read(s.state, <<>>, bytes)
    ELSE deserialize_strings(s.rest, n - 1, Append(got, s.val))

deserialize_strings(bytes, n, got) ==
    IF n = 0 THEN Read("ok", got, bytes)
    ELSE The({strings_after(s, bytes, n, got) : s \in {deserialize_String(bytes)}})

slice_of_len(n, bytes) ==
    IF n.state # "ok" THEN Read(n.state, <<>>, bytes)
    ELSE IF Len(n.rest) < n.val THEN Read("short", <<>>, bytes)
    ELSE deserialize_strings(n.rest, n.val, <<>>)

deserialize_slice(bytes) ==
    The({slice_of_len(n, bytes) : n \in {deserialize_int(8, bytes)}})

\* VersionReq travels as the text it displays as, and is parsed back
VersionReqs == {AtLeast(V010), AtLeast(V020), AtLeast(V030)}

VersionReqText(req) ==
    CASE req = AtLeast(V010) -> ">=0.1.0"
      [] req = AtLeast(V020) -> ">=0.2.0"
      [] req = AtLeast(V030) -> ">=0.3.0"
      [] OTHER -> ""

serialize_VersionReq(req) == serialize_String(VersionReqText(req))

VersionReq_parse(s, bytes) ==
    IF s.state # "ok" THEN Read(s.state, <<>>, bytes)
    ELSE IF \E req \in VersionReqs : VersionReqText(req) = s.val
    THEN Read("ok", CHOOSE req \in VersionReqs : VersionReqText(req) = s.val, s.rest)
    ELSE Read("bad", <<>>, bytes)

deserialize_VersionReq(bytes) ==
    The({VersionReq_parse(s, bytes) : s \in {deserialize_String(bytes)}})

\* struct ScriptInfo: its four fields in the order they are declared
serialize_ScriptInfo(info) ==
    serialize_String(info.name) \o serialize_ScriptType(info.script_type)
        \o serialize_slice(info.hooks) \o serialize_VersionReq(info.version_requirement)

ScriptInfo_done(name, script_type, hooks, version_requirement, bytes) ==
    IF version_requirement.state # "ok"
    THEN Read(version_requirement.state, NoInfo, bytes)
    ELSE Read("ok", ScriptInfo(name.val, script_type.val, hooks.val,
                               version_requirement.val),
              version_requirement.rest)

ScriptInfo_after_hooks(name, script_type, hooks, bytes) ==
    IF hooks.state # "ok" THEN Read(hooks.state, NoInfo, bytes)
    ELSE The({ScriptInfo_done(name, script_type, hooks, v, bytes) :
                 v \in {deserialize_VersionReq(hooks.rest)}})

ScriptInfo_after_script_type(name, script_type, bytes) ==
    IF script_type.state # "ok" THEN Read(script_type.state, NoInfo, bytes)
    ELSE The({ScriptInfo_after_hooks(name, script_type, hooks, bytes) :
                 hooks \in {deserialize_slice(script_type.rest)}})

ScriptInfo_after_name(name, bytes) ==
    IF name.state # "ok" THEN Read(name.state, NoInfo, bytes)
    ELSE The({ScriptInfo_after_script_type(name, t, bytes) :
                 t \in {deserialize_ScriptType(name.rest)}})

deserialize_ScriptInfo(bytes) ==
    The({ScriptInfo_after_name(name, bytes) : name \in {deserialize_String(bytes)}})

\* serialize::<T> and deserialize::<T>, for the types that travel
serialize(T, v) ==
    CASE T = "Message" -> serialize_Message(v)
      [] T = "String" -> serialize_String(v)
      [] T = "ScriptInfo" -> serialize_ScriptInfo(v)
      [] T = "Usize" -> le_bytes(8, v)
      [] OTHER -> <<>>

deserialize(T, bytes) ==
    CASE T = "Message" -> deserialize_Message(bytes)
      [] T = "String" -> deserialize_String(bytes)
      [] T = "ScriptInfo" -> deserialize_ScriptInfo(bytes)
      [] T = "Usize" -> deserialize_int(8, bytes)
      [] OTHER -> Read("ok", "()", bytes)

\* The hooks of examples/shell/shell-api: the type of the hook itself (its
\* input) and of its Output, and the values tried
HookType(H) == IF H = "Eval" THEN "String" ELSE "Unit"
OutputType(H) == IF H = "Eval" THEN "String" ELSE "Usize"

----------------------------------------------------------------------------
(* Pipe level: one host running start_script on an executable and then     *)
(* trigger_internal any number of times, and the processes it spawns, each  *)
(* running Scripter::execute (scripting.rs 106-149).  Host and script move  *)
(* one system call at a time; a process may end at any moment.             *)

MaxCalls == 2

\* std::process::Child with its two pipes: pc is where the script is in
\* Scripter::execute ("main" for a program that is no script), open whether
\* the host still holds the Child, sent the values the host has written to
\* its stdin and got the values the script has read from it.
Child(path) ==
    [path |-> path, pc |-> IF Files[path].greets THEN "message" ELSE "main",
     alive |-> TRUE, open |-> TRUE, stdin |-> <<>>, stdout |-> <<>>,
     sent |-> <<>>, got |-> <<>>, hook_name |-> ""]

\* The process ends: exit, panic or kill
Exited(c) == [c EXCEPT !.alive = FALSE, !.pc = "exited"]

\* bincode::deserialize_from(&mut stdin).unwrap() in the script: the value is
\* taken off the pipe; the call blocks while the value is incomplete and the
\* host holds the pipe; end of file or bytes of no value make unwrap panic
Taken(blocked, val, c) == [blocked |-> blocked, val |-> val, c |-> c]

script_took(d, c) ==
    IF d.state = "ok"
    THEN Taken(FALSE, d.val, [c EXCEPT !.stdin = d.rest, !.got = Append(@, d.val)])
    ELSE IF d.state = "short" /\ c.open
    THEN Taken(TRUE, "", c)
    ELSE Taken(FALSE, "", Exited(c))

script_read(c, T) == The({script_took(d, c) : d \in {deserialize(T, c.stdin)}})

\* The output the handler of hook H writes for this hook value
HandlerOutput(H, input) == IF H = "Eval" THEN input ELSE 7

\* A faulty loop that reads no Message at its head: C21 tells it apart
loop_never_reads_message(script_type) == FALSE

\* Whether the script reads a Message at the head of its loop (scripting.rs 135)
loop_reads_message(script_type) == script_type = "Daemon"

\* The script goes on at pc after a read, unless the read blocks or panics
GoOn(m, pc) ==
    IF m.blocked \/ ~m.c.alive THEN m ELSE Taken(FALSE, m.val, [m.c EXCEPT !.pc = pc])

\* line 111: the first Message
execute_message(m) ==
    GoOn(m, IF m.val = "Greeting" THEN "info" ELSE "loop")

\* lines 114-126: write the ScriptInfo and flush; a OneShot script exits
execute_greeting(c, info) ==
    IF ~c.open THEN Taken(FALSE, "", Exited(c))
    ELSE IF info.script_type = "OneShot"
    THEN Taken(FALSE, "", Exited([c EXCEPT !.stdout = @ \o serialize("ScriptInfo", info)]))
    ELSE Taken(FALSE, "", [c EXCEPT !.stdout = @ \o serialize("ScriptInfo", info),
                                    !.pc = "loop"])

\* line 139: the hook name
execute_hook_name(n) ==
    IF n.blocked \/ ~n.c.alive THEN n
    ELSE Taken(FALSE, n.val, [n.c EXCEPT !.pc = "func", !.hook_name = n.val])

\* A faulty handler that reads the hook and writes no output: C27 tells it
\* apart
execute_func_silent(h, H, open, script_type) ==
    IF h.blocked \/ ~h.c.alive THEN h
    ELSE IF ~open THEN Taken(FALSE, "", Exited(h.c))
    ELSE IF script_type = "OneShot"
    THEN Taken(FALSE, "", Exited([h.c EXCEPT !.hook_name = ""]))
    ELSE Taken(FALSE, "", [h.c EXCEPT !.hook_name = "", !.pc = "loop"])

\* A faulty handler that writes its output twice: C18 tells it apart
execute_func_writing_twice(h, H, open, script_type) ==
    IF h.blocked \/ ~h.c.alive THEN h
    ELSE IF ~open THEN Taken(FALSE, "", Exited(h.c))
    ELSE LET c == [h.c EXCEPT !.hook_name = "",
                              !.stdout = @ \o serialize(OutputType(H), HandlerOutput(H, h.val))
                                           \o serialize(OutputType(H), HandlerOutput(H, h.val))]
         IN  IF script_type = "OneShot" THEN Taken(FALSE, "", Exited(c))
             ELSE Taken(FALSE, "", [c EXCEPT !.pc = "loop"])

\* lines 141-147: the handler has read the hook (h); it writes its output,
\* stdout is flushed, and a OneShot script returns
execute_func(h, H, open, script_type) ==
    IF h.blocked \/ ~h.c.alive THEN h
    ELSE IF ~open THEN Taken(FALSE, "", Exited(h.c))
    ELSE IF script_type = "OneShot"
    THEN Taken(FALSE, "",
               Exited([h.c EXCEPT !.hook_name = "",
                                  !.stdout = @ \o serialize(OutputType(H),
                                                            HandlerOutput(H, h.val))]))
    ELSE Taken(FALSE, "",
               [h.c EXCEPT !.hook_name = "", !.pc = "loop",
                           !.stdout = @ \o serialize(OutputType(H),
                                                     HandlerOutput(H, h.val))])

\* One step of Scripter::execute in process c
execute(c) ==
    CASE c.pc = "message" ->
           execute_message(script_read(c, "Message"))
      [] c.pc = "info" ->
           execute_greeting(c, Files[c.path].info)
      [] c.pc = "loop" ->
           \* lines 135-137: a Daemon reads the Message of this dispatch
           IF loop_reads_message(Files[c.path].info.script_type)
           THEN GoOn(script_read(c, "Message"), "name")
           ELSE Taken(FALSE, "", [c EXCEPT !.pc = "name"])
      [] c.pc = "name" ->
           execute_hook_name(script_read(c, "String"))
      [] c.pc = "func" ->
           \* the handler of a hook the script does not know panics
           IF ~is_listening_for([metadata |-> Files[c.path].info], c.hook_name)
           THEN Taken(FALSE, "", Exited(c))
           ELSE execute_func(script_read(c, HookType(c.hook_name)), c.hook_name,
                             c.open, Files[c.path].info.script_type)
      [] OTHER -> Taken(TRUE, "", c)

\* The executables start_script is tried on
ExecPaths == {"evaluator", "randomize", "newer", "plugin", "true", "notes.txt"}

\* The host drops a Child: its ends of the two pipes are closed; the process
\* is not killed
Dropped(cs, pid) == IF pid = 0 THEN cs ELSE [cs EXCEPT ![pid].open = FALSE]

\* bincode::serialize_into(stdin, value) in the host: fails on the pipe of
\* a process that has ended; a value of no bytes makes no write call
pipe_write(c, T, v) ==
    IF c.alive \/ serialize(T, v) = <<>>
    THEN [ok |-> TRUE,
          c |-> [c EXCEPT !.stdin = @ \o serialize(T, v), !.sent = Append(@, v)]]
    ELSE [ok |-> FALSE, c |-> c]

\* bincode::deserialize_from(stdout) in the host: blocks while the value is
\* incomplete and the process lives
Got(blocked, ok, cause, val, c) ==
    [blocked |-> blocked, ok |-> ok, cause |-> cause, val |-> val, c |-> c]

\* A faulty read that waits for a value that is not there yet even when the
\* process has ended: C24 tells it apart
host_took_waiting(d, c) ==
    IF d.state = "ok" THEN Got(FALSE, TRUE, "", d.val, [c EXCEPT !.stdout = d.rest])
    ELSE IF d.state = "short" THEN Got(TRUE, FALSE, "", <<>>, c)
    ELSE Got(FALSE, FALSE, "InvalidData", <<>>, c)

host_took(d, c) ==
    IF d.state = "ok" THEN Got(FALSE, TRUE, "", d.val, [c EXCEPT !.stdout = d.rest])
    ELSE IF d.state = "short" /\ c.alive THEN Got(TRUE, FALSE, "", <<>>, c)
    ELSE IF d.state = "short" THEN Got(FALSE, FALSE, "UnexpectedEof", <<>>, c)
    ELSE Got(FALSE, FALSE, "InvalidData", <<>>, c)

pipe_read(c, T) == The({host_took(d, c) : d \in {deserialize(T, c.stdout)}})

PipeInit ==
    /\ scripts = <<>>
    /\ procs = <<>>
    /\ iter = NoIter
    /\ effects = <<>>
    /\ lastCall = Call("default", 0, "", <<>>, <<>>, Ok(<<>>))
    /\ touched = {}
    /\ dropped = FALSE
    /\ heap = <<>>
    /\ ffi = NoFfi
    /\ children = <<>>
    /\ \E version \in HostVersions :
          host = HostAt("new", version, NoScript, 0, "", <<>>, Ok(<<>>), 0)

hostVars == <<scripts, procs, iter, effects, lastCall, touched, dropped>>

\* start_script, lines 138-141: Command::new(path)...spawn()?
StartScriptSpawn(path) ==
    /\ host.pc = "new"
    /\ LET pid == Len(children) + 1
       IN  IF Files[path].spawns
           THEN /\ children' = Append(children, Child(path))
                /\ host' = [host EXCEPT !.pc = "greet", !.child = pid,
                                        !.eff = <<Effect("spawn", 0, pid, path, "", TRUE)>>]
           ELSE /\ children' = children
                /\ host' = [host EXCEPT !.pc = "failed", !.res = FromIoError("spawn"),
                                        !.eff = <<Effect("spawn", 0, 0, path, "", FALSE)>>]
    /\ UNCHANGED <<hostVars, ffiVars>>

\* start_script, lines 144-145: serialize_into(stdin, &Message::Greeting)?
start_script_greeted(pid, w) ==
    LET sys == Effect("write", 0, pid, children[pid].path, "Greeting", w.ok)
    IN
    IF w.ok
    THEN /\ children' = [children EXCEPT ![pid] = w.c]
         /\ host' = [host EXCEPT !.pc = "info", !.eff = Append(@, sys)]
    ELSE /\ children' = Dropped(children, pid)
         /\ host' = [host EXCEPT !.pc = "failed", !.child = 0,
                                 !.res = FromBincodeError("BrokenPipe"),
                                 !.eff = Append(@, sys)]

StartScriptGreet ==
    /\ host.pc = "greet"
    /\ start_script_greeted(host.child,
                            pipe_write(children[host.child], "Message", "Greeting"))
    /\ UNCHANGED <<hostVars, ffiVars>>

\* A faulty start_script that reads the stdout of a child it will not keep
\* once more, until its end: C23 tells it apart
start_script_read_to_the_end(pid, path, r) ==
    LET sys == Effect("read", 0, pid, path, "ScriptInfo", r.ok)
    IN
    /\ ~r.blocked
    /\ IF ~r.ok
       THEN /\ children' = Dropped(children, pid)
            /\ host' = [host EXCEPT !.pc = "failed", !.child = 0,
                                    !.res = FromBincodeError(r.cause),
                                    !.eff = Append(@, sys)]
       ELSE IF ~Matches(r.val.version_requirement, host.version)
       THEN /\ children' = Dropped([children EXCEPT ![pid] = r.c], pid)
            /\ host' = [host EXCEPT
                           !.pc = "failed", !.child = 0,
                           !.res = ScriptVersionMismatch(
                                       host.version, r.val.version_requirement),
                           !.eff = Append(@, sys)]
       ELSE IF r.val.script_type = "Daemon"
       THEN /\ children' = [children EXCEPT ![pid] = r.c]
            /\ host' = [host EXCEPT
                           !.pc = "idle", !.res = Ok(<<>>), !.eff = Append(@, sys),
                           !.script = Script(Daemon(pid), r.val, "Active")]
       ELSE /\ children' = [children EXCEPT ![pid] = r.c]
            /\ host' = [host EXCEPT
                           !.pc = "info", !.res = Ok(<<>>),
                           !.eff = Append(@, sys),
                           !.script = Script(OneShot(path), r.val, "Active")]

\* A faulty start_script that drops the Child only when the script reports
\* OneShot: C22 tells it apart
start_script_read_keeping_unless_oneshot(pid, path, r) ==
    LET sys == Effect("read", 0, pid, path, "ScriptInfo", r.ok)
    IN
    /\ ~r.blocked
    /\ IF ~r.ok
       THEN /\ children' = Dropped(children, pid)
            /\ host' = [host EXCEPT !.pc = "failed", !.child = 0,
                                    !.res = FromBincodeError(r.cause),
                                    !.eff = Append(@, sys)]
       ELSE IF ~Matches(r.val.version_requirement, host.version)
       THEN /\ children' = Dropped([children EXCEPT ![pid] = r.c], pid)
            /\ host' = [host EXCEPT
                           !.pc = "failed", !.child = 0,
                           !.res = ScriptVersionMismatch(
                                       host.version, r.val.version_requirement),
                           !.eff = Append(@, sys)]
       ELSE IF r.val.script_type # "OneShot"
       THEN /\ children' = [children EXCEPT ![pid] = r.c]
            /\ host' = [host EXCEPT
                           !.pc = "idle", !.res = Ok(<<>>), !.eff = Append(@, sys),
                           !.script = Script(Daemon(pid), r.val, "Active")]
       ELSE /\ children' = Dropped([children EXCEPT ![pid] = r.c], pid)
            /\ host' = [host EXCEPT
                           !.pc = "idle", !.child = 0, !.res = Ok(<<>>),
                           !.eff = Append(@, sys),
                           !.script = Script(OneShot(path), r.val, "Active")]

\* start_script, lines 148-169: read the ScriptInfo, check the version, keep
\* the Child in a Daemon endpoint or drop it and keep the path
start_script_read(pid, path, r) ==
    LET sys == Effect("read", 0, pid, path, "ScriptInfo", r.ok)
    IN
    /\ ~r.blocked
    /\ IF ~r.ok
       THEN /\ children' = Dropped(children, pid)
            /\ host' = [host EXCEPT !.pc = "failed", !.child = 0,
                                    !.res = FromBincodeError(r.cause),
                                    !.eff = Append(@, sys)]
       ELSE IF ~Matches(r.val.version_requirement, host.version)
       THEN /\ children' = Dropped([children EXCEPT ![pid] = r.c], pid)
            /\ host' = [host EXCEPT
                           !.pc = "failed", !.child = 0,
                           !.res = ScriptVersionMismatch(
                                       host.version, r.val.version_requirement),
                           !.eff = Append(@, sys)]
       ELSE IF r.val.script_type = "Daemon"
       THEN /\ children' = [children EXCEPT ![pid] = r.c]
            /\ host' = [host EXCEPT
                           !.pc = "idle", !.res = Ok(<<>>), !.eff = Append(@, sys),
                           !.script = Script(Daemon(pid), r.val, "Active")]
       ELSE /\ children' = Dropped([children EXCEPT ![pid] = r.c], pid)
            /\ host' = [host EXCEPT
                           !.pc = "idle", !.child = 0, !.res = Ok(<<>>),
                           !.eff = Append(@, sys),
                           !.script = Script(OneShot(path), r.val, "Active")]

StartScriptRead ==
    /\ host.pc = "info"
    /\ \E r \in {pipe_read(children[host.child], "ScriptInfo")} :
          start_script_read(host.child, children[host.child].path, r)
    /\ UNCHANGED <<hostVars, ffiVars>>

\* trigger_internal, lines 333-340: whether the dispatch spawns the process
\* it talks to (OneShot) or uses the Child the endpoint holds (Daemon)
dispatch_spawns(script) == script.kind = "OneShot"

\* trigger_hook_common, lines 324-328: the value each of the three writes
\* sends, its type, and the step that follows it
Frame(T, v, next) == [T |-> T, v |-> v, next |-> next]

\* A faulty dispatch that greets the process before the hook name, as
\* start_script does: C12 tells it apart
hook_write_greeting_first(pc, H) ==
    CASE pc = "execute" -> Frame("Message", "Greeting", "hook_name")
      [] pc = "hook_name" -> Frame("String", H, "hook")
      [] OTHER -> Frame(HookType(H), HookInput(H), "output")

hook_write(pc, H) ==
    CASE pc = "execute" -> Frame("Message", "Execute", "hook_name")
      [] pc = "hook_name" -> Frame("String", H, "hook")
      [] OTHER -> Frame(HookType(H), HookInput(H), "output")

\* A faulty dispatch that starts a fresh process for every endpoint, a
\* Daemon included: C11 tells it apart
TriggerInternalRespawning(H) ==
    /\ host.pc = "idle"
    /\ host.calls < MaxCalls
    /\ is_listening_for(host.script, H)
    /\ LET path == host.script.metadata.name
           pid == Len(children) + 1
       IN  /\ children' = Append(children, Child(path))
           /\ host' = [host EXCEPT !.pc = "execute", !.hook = H, !.child = pid,
                                   !.eff = <<Effect("spawn", 1, pid, path, "", TRUE)>>]
    /\ UNCHANGED <<hostVars, ffiVars>>

\* trigger_internal is entered for hook H (its callers have checked that the
\* endpoint listens for H); a OneShot endpoint spawns its executable
TriggerInternal(H) ==
    /\ host.pc = "idle"
    /\ host.calls < MaxCalls
    /\ is_listening_for(host.script, H)
    /\ IF dispatch_spawns(host.script.script)
       THEN LET path == host.script.script.path
                pid == Len(children) + 1
            IN  /\ children' = Append(children, Child(path))
                /\ host' = [host EXCEPT !.pc = "execute", !.hook = H, !.child = pid,
                                        !.eff = <<Effect("spawn", 1, pid, path, "", TRUE)>>]
       ELSE /\ children' = children
            /\ host' = [host EXCEPT !.pc = "execute", !.hook = H, !.eff = <<>>,
                                    !.child = host.script.script.child]
    /\ UNCHANGED <<hostVars, ffiVars>>

\* The host's state when the dispatch returns: a Child spawned for the
\* dispatch is dropped with it
Returned(res, sys) ==
    [host EXCEPT !.pc = "idle", !.res = res, !.calls = @ + 1, !.eff = Append(@, sys),
                 !.child = IF dispatch_spawns(host.script.script) THEN 0 ELSE @]

Released(cs) ==
    IF dispatch_spawns(host.script.script) THEN Dropped(cs, host.child) ELSE cs

\* A faulty dispatch that goes on to the next step when a write fails: C17
\* tells it apart
trigger_wrote_unchecked(pid, f, w) ==
    /\ children' = IF w.ok THEN [children EXCEPT ![pid] = w.c] ELSE children
    /\ host' = [host EXCEPT !.pc = f.next,
                            !.eff = Append(@, Effect("write", 1, pid, children[pid].path,
                                                     f.v, w.ok))]

\* trigger_hook_common, lines 324-328: one of the three writes; `?` returns
\* the error of a write that fails
trigger_wrote(pid, f, w) ==
    LET sys == Effect("write", 1, pid, children[pid].path, f.v, w.ok)
    IN  IF w.ok
        THEN /\ children' = [children EXCEPT ![pid] = w.c]
             /\ host' = [host EXCEPT !.pc = f.next, !.eff = Append(@, sys)]
        ELSE /\ children' = Released(children)
             /\ host' = Returned(TriggerHookCommonResult(
                                     [res |-> BincodeErr("BrokenPipe")]), sys)

TriggerWrite ==
    /\ host.pc \in {"execute", "hook_name", "hook"}
    /\ trigger_wrote(host.child, hook_write(host.pc, host.hook),
                     pipe_write(children[host.child],
                                hook_write(host.pc, host.hook).T,
                                hook_write(host.pc, host.hook).v))
    /\ UNCHANGED <<hostVars, ffiVars>>

\* trigger_hook_common, line 330: deserialize_from(stdout)
trigger_read(pid, r) ==
    LET sys == Effect("read", 1, pid, children[pid].path, "Output", r.ok)
        res == IF r.ok THEN BincodeOk(r.val) ELSE BincodeErr(r.cause)
    IN  /\ ~r.blocked
        /\ children' = Released([children EXCEPT ![pid] = r.c])
        /\ host' = Returned(TriggerHookCommonResult([res |-> res]), sys)

TriggerRead ==
    /\ host.pc = "output"
    /\ \E r \in {pipe_read(children[host.child], OutputType(host.hook))} :
          trigger_read(host.child, r)
    /\ UNCHANGED <<hostVars, ffiVars>>

\* Drop for ScriptManager: Script::end kills the Child of a Daemon endpoint
PipeDrop ==
    /\ host.pc = "idle"
    /\ LET kill == end(host.script, 1, children)
       IN  /\ host' = [host EXCEPT !.pc = "dropped", !.child = 0, !.eff = kill]
           /\ children' = [pid \in 1..Len(children) |->
                              IF \E k \in 1..Len(kill) : kill[k].pid = pid
                              THEN [Exited(children[pid]) EXCEPT !.open = FALSE]
                              ELSE children[pid]]
    /\ UNCHANGED <<hostVars, ffiVars>>

\* A process takes its next step in Scripter::execute
ScriptStep(pid) ==
    /\ pid \in 1..Len(children)
    /\ children[pid].alive
    /\ \E step \in {execute(children[pid])} :
          /\ ~step.blocked
          /\ children' = [children EXCEPT ![pid] = step.c]
    /\ UNCHANGED <<host, hostVars, ffiVars>>

\* A process ends on its own or is killed from outside
PipeKill(pid) ==
    /\ pid \in 1..Len(children)
    /\ children[pid].alive
    /\ children' = [children EXCEPT ![pid] = Exited(@)]
    /\ UNCHANGED <<host, hostVars, ffiVars>>

PipeNext ==
    \/ \E path \in ExecPaths : StartScriptSpawn(path)
    \/ StartScriptGreet
    \/ StartScriptRead
    \/ \E H \in HookNames : TriggerInternal(H)
    \/ TriggerWrite
    \/ TriggerRead
    \/ PipeDrop
    \/ \E pid \in 1..Len(children) : ScriptStep(pid)
    \/ \E pid \in 1..Len(children) : PipeKill(pid)

PipeSpec == PipeInit /\ [][PipeNext]_vars

\* The executables that run Scripter::execute
ConformingPaths == {p \in ExecPaths : Files[p].greets}

\* The same host with conforming scripts only, when nothing ends a process
\* from outside: every process runs until it exits by itself or the manager
\* is dropped
ConformingNext ==
    \/ \E path \in ConformingPaths : StartScriptSpawn(path)
    \/ StartScriptGreet
    \/ StartScriptRead
    \/ \E H \in HookNames : TriggerInternal(H)
    \/ TriggerWrite
    \/ TriggerRead
    \/ PipeDrop
    \/ \E pid \in 1..Len(children) : ScriptStep(pid)

ConformingSpec ==
    /\ PipeInit /\ [][ConformingNext]_vars
    /\ WF_vars(StartScriptGreet)
    /\ WF_vars(StartScriptRead)
    /\ WF_vars(TriggerWrite)
    /\ WF_vars(TriggerRead)
    /\ \A pid \in 1..(MaxCalls + 1) : WF_vars(ScriptStep(pid))

\* The host's thread runs on while its next call can return, and every
\* process is scheduled while it can take a step; no process has to end
PipeFairSpec ==
    /\ PipeSpec
    /\ WF_vars(StartScriptGreet)
    /\ WF_vars(StartScriptRead)
    /\ WF_vars(TriggerWrite)
    /\ WF_vars(TriggerRead)
    /\ \A pid \in 1..(MaxCalls + 1) : WF_vars(ScriptStep(pid))

----------------------------------------------------------------------------
(* Properties of the pipe-level protocol                                   *)

\* start_script has returned an endpoint of this kind
HasEndpoint(kind) ==
    /\ host.pc \notin {"off", "new", "greet", "info", "failed"}
    /\ host.script.script.kind = kind

\* The host is inside a dispatch
Dispatching == host.pc \in {"execute", "hook_name", "hook", "output"}

\* sent, from position `from` on, is a run of (Execute, hook name, hook)
\* triples, the last one possibly cut short
TriplesFrom(sent, from, hooks) ==
    \A k \in from..Len(sent) :
        CASE (k - from) % 3 = 0 -> sent[k] = "Execute"
          [] (k - from) % 3 = 1 -> \E j \in 1..Len(hooks) : sent[k] = hooks[j]
          [] OTHER -> sent[k] = HookInput(sent[k - 1])

\* C11: a Daemon endpoint is served, for all its life, by the one process
\* start_script spawned: no dispatch spawns a process (there is one process,
\* and every system call of a dispatch is a read or write on its pipes), and
\* what the host has written to that process is one Greeting, first, and
\* then only (Execute, hook name, hook) triples, whole ones whenever a
\* dispatch has returned Ok.
C11_DaemonServedByItsOneChild ==
    HasEndpoint("Daemon") =>
        LET pid == host.script.script.child
            c == children[pid]
        IN  /\ Len(children) = 1
            /\ pid = 1
            /\ host.pc # "dropped" => host.child = pid
            /\ (Dispatching \/ host.calls > 0) /\ host.pc # "dropped" =>
                  \A k \in 1..Len(host.eff) :
                      /\ host.eff[k].op \in {"write", "read"}
                      /\ host.eff[k].pid = pid
            /\ c.sent # <<>> /\ c.sent[1] = "Greeting"
            /\ TriplesFrom(c.sent, 2, host.script.metadata.hooks)
            /\ (host.pc = "idle" /\ host.calls > 0 /\ host.res.ok) =>
                  Len(c.sent) = 1 + 3 * host.calls

\* A daemon has served two dispatches, the second one Ok, and is alive
C11_Witness ==
    /\ HasEndpoint("Daemon")
    /\ host.pc = "idle"
    /\ host.calls = 2
    /\ host.res.ok
    /\ children[1].alive
    /\ Len(children[1].sent) = 7

----------------------------------------------------------------------------
(* Properties of the manager's destruction and of the directory scan       *)

\* The Daemon endpoints of the registry, in insertion order
Daemons == SelectSeq([i \in 1..Len(scripts) |-> i],
                     LAMBDA i : scripts[i].script.kind = "Daemon")

\* C13: once the manager is dropped, kill has been called on the child of
\* every Daemon endpoint of the registry, once each and in registry order,
\* whether or not an earlier kill failed because its child had already
\* exited, and on nothing else; no child of a Daemon endpoint is left alive.
C13_DropKillsEveryDaemon ==
    dropped =>
        /\ lastCall.op = "drop"
        /\ Len(effects) = Len(Daemons)
        /\ \A k \in 1..Len(Daemons) :
              /\ effects[k].op = "kill"
              /\ effects[k].ep = Daemons[k]
              /\ effects[k].pid = scripts[Daemons[k]].script.child
        /\ \A e \in 1..Len(scripts) :
              scripts[e].script.kind = "Daemon" => ~procs[scripts[e].script.child].alive

\* Two daemons were dropped: the first had already exited, so its kill
\* failed, and the second was killed all the same
C13_Witness ==
    /\ dropped
    /\ Len(effects) = 2
    /\ ~effects[1].ok
    /\ effects[2].ok
    /\ effects[2].op = "kill"

\* The paths a discovery call started (spawned or loaded), in order
StartedPaths ==
    LET started == SelectSeq(effects, IsStart)
    IN  [k \in 1..Len(started) |-> started[k].path]

IsPrefix(s, t) == Len(s) <= Len(t) /\ s = SubSeq(t, 1, Len(s))

\* C14: a discovery call touches a directory entry only if the entry is a
\* regular file of the call's own kind: add_scripts_by_path spawns, and
\* talks to, regular files whose extension is not the dynamic-library
\* extension (files with no extension among them) and loads nothing;
\* add_dynamic_scripts_by_path loads regular files with that extension and
\* spawns nothing; neither touches an entry that is not a regular file nor
\* any path that is not an entry of the directory.  The entries started are
\* the entries of the call's kind, in directory order: all of them when the
\* call returns Ok, those up to the failing one otherwise.
C14_EntriesPartitionedByExtension ==
    IsAdd(lastCall.op) =>
        LET mine(path) == Eligible(lastCall.op, path)
        IN  /\ \A k \in 1..Len(effects) :
                  LET f == Files[effects[k].path]
                  IN  /\ \E j \in 1..Len(lastCall.entries) :
                            lastCall.entries[j] = effects[k].path
                      /\ f.isFile
                      /\ IF lastCall.op = "add_scripts_by_path"
                         THEN /\ f.ext # DLL_EXTENSION
                              /\ effects[k].op \in {"spawn", "write", "read"}
                         ELSE /\ f.ext = DLL_EXTENSION
                              /\ effects[k].op \in {"load", "symbol", "call"}
            /\ IsPrefix(StartedPaths, SelectSeq(lastCall.entries, mine))
            /\ lastCall.res.ok => StartedPaths = SelectSeq(lastCall.entries, mine)

\* add_scripts_by_path went over two libraries, a sub-directory and one
\* executable, and started the executable only
C14_Witness ==
    /\ lastCall.op = "add_scripts_by_path"
    /\ lastCall.entries = <<"libecho.so", "subdir", "newer", "libnext.so">>
    /\ lastCall.res.ok
    /\ StartedPaths = <<"newer">>
    /\ scripts[Len(scripts)].metadata.name = "newer"

----------------------------------------------------------------------------
(* Library level: FFiData (scripting.rs 209-234) and the calls that pass   *)
(* it across the library boundary: script_info in load_dynamic_library     *)
(* (lib.rs 207) and script in trigger_internal (lib.rs 341-346), with the   *)
(* library side of examples/shell/scripts/echo-script.                      *)

MaxFfiCalls == 2
MaxSlack == 1

\* The allocation behind an FFiData, with the fields of the FFiData that
\* points to it: mem is the cap bytes allocated, of which the first len are
\* written; T and v are the type and the value serialized into it; owner is
\* the side ("host" or "lib") that holds the FFiData now, made_by the side
\* that made it; freed_by lists the sides that have dropped it, and
\* read_after_free says whether it was read once dropped.
Buffer(mem, len, cap, T, v, side) ==
    [mem |-> mem, len |-> len, cap |-> cap, T |-> T, v |-> v, owner |-> side,
     made_by |-> side, freed_by |-> <<>>, read_after_free |-> FALSE]

\* The bytes of an allocation that were never written
Unwritten(n) == [k \in 1..n |-> 170]

\* FFiData::serialize_from (scripting.rs 216-223): bincode::serialize gives
\* a Vec whose capacity is at least its length (slack more); the Vec is not
\* dropped, and its pointer, length and capacity make the FFiData
serialize_from(T, v, slack, side) ==
    Buffer(serialize(T, v) \o Unwritten(slack), Len(serialize(T, v)),
           Len(serialize(T, v)) + slack, T, v, side)

\* A faulty deserialize that hands the whole allocation to the codec: C16
\* tells it apart
FFiData_deserialize_capacity(b, T) ==
    [T |-> T, slice |-> b.cap, res |-> deserialize(T, SubSeq(b.mem, 1, b.cap))]

\* FFiData::deserialize (scripting.rs 225-228): the codec is handed the
\* slice of the first len bytes; bytes left after the value are allowed
FFiData_deserialize(b, T) ==
    [T |-> T, slice |-> b.len, res |-> deserialize(T, SubSeq(b.mem, 1, b.len))]

\* The heap after a side has read buffer id, and after it has dropped it
\* (Drop for FFiData, scripting.rs 230-234)
ReadBy(hp, id) ==
    [hp EXCEPT ![id].read_after_free = @ \/ hp[id].freed_by # <<>>]

DroppedBy(hp, id, side) == [hp EXCEPT ![id].freed_by = Append(@, side)]

\* The libraries called, the hook values sent and the outputs computed
LibPaths == {"libecho.so", "libnext.so", "libdice.so"}

HookValues(H) == IF H = "Eval" THEN {"x", "", "Eval"} ELSE {"()"}

\* The outputs of type T a library may compute: a number, or the text it
\* read (echo-script, line 26) when it read one
LibOutputs(T, got) ==
    IF T = "Usize" THEN {0, 7, 300}
    ELSE IF got # <<>> /\ got.T = "String" /\ got.res.state = "ok"
    THEN {got.res.val} ELSE {"x"}

FfiInit ==
    /\ scripts = <<>>
    /\ procs = <<>>
    /\ iter = NoIter
    /\ effects = <<>>
    /\ lastCall = Call("default", 0, "", <<>>, <<>>, Ok(<<>>))
    /\ touched = {}
    /\ dropped = FALSE
    /\ children = <<>>
    /\ host = NoHost
    /\ heap = <<>>
    /\ \E version \in HostVersions :
          ffi = FfiAt("idle", version, "", "", 0, 0, <<>>, Ok(<<>>), 0)

\* load_dynamic_library, line 207: (script.script_info)() is called; the
\* library serializes its ScriptInfo into an FFiData (into_ffi_data) and
\* returns it to the host.  A library built against another ScriptInfo
\* returns other bytes.
LoadDynamicLibrary(lib, T, slack) ==
    /\ ffi.pc = "idle"
    /\ ffi.calls < MaxFfiCalls
    /\ heap' = <<[serialize_from(T, IF T = "ScriptInfo" THEN Files[lib].info
                                      ELSE 7, slack, "lib")
                       EXCEPT !.owner = "host"]>>
    /\ ffi' = FfiAt("info", ffi.version, lib, "", 0, 1, <<>>, Ok(<<>>), ffi.calls)
    /\ UNCHANGED <<hostVars, pipeVars>>

\* trigger_internal, line 344: the host serializes the hook into an FFiData
TriggerDynamicLib(lib, H, v, slack) ==
    /\ ffi.pc = "idle"
    /\ ffi.calls < MaxFfiCalls
    /\ is_listening_for([metadata |-> Files[lib].info], H)
    /\ heap' = <<serialize_from(HookType(H), v, slack, "host")>>
    /\ ffi' = FfiAt("call", ffi.version, lib, H, 1, 0, <<>>, Ok(<<>>), ffi.calls)
    /\ UNCHANGED <<hostVars, pipeVars>>

\* A faulty call that hands the library a copy of the FFiData and keeps the
\* host's own: C15 tells it apart
FfiCallByCopy ==
    /\ ffi.pc = "call"
    /\ heap' = heap
    /\ ffi' = [ffi EXCEPT !.pc = "script"]
    /\ UNCHANGED <<hostVars, pipeVars>>

\* trigger_internal, line 344: (script.script)(name, data): the FFiData is
\* moved into the library's function
FfiCall ==
    /\ ffi.pc = "call"
    /\ heap' = [heap EXCEPT ![ffi.input].owner = "lib"]
    /\ ffi' = [ffi EXCEPT !.pc = "script"]
    /\ UNCHANGED <<hostVars, pipeVars>>

\* echo-script, line 25: DynamicScript::read(hook) deserializes the hook as
\* the library's type T for it and drops the FFiData it was given; when
\* deserialize fails, unwrap panics inside the extern "C" function: the
\* process ends, after the FFiData was dropped by the unwinding or without
\* that (unwound)
LibRead(T, unwound) ==
    /\ ffi.pc = "script"
    /\ ffi' = [ffi EXCEPT
                  !.got = FFiData_deserialize(heap[ffi.input], T),
                  !.pc = IF deserialize(T, SubSeq(heap[ffi.input].mem, 1,
                                                  heap[ffi.input].len)).state = "ok"
                         THEN "write" ELSE "aborted"]
    /\ heap' = IF ffi'.pc = "aborted" /\ ~unwound
               THEN ReadBy(heap, ffi.input)
               ELSE DroppedBy(ReadBy(heap, ffi.input), ffi.input, "lib")
    /\ UNCHANGED <<hostVars, pipeVars>>

\* echo-script, lines 29-32: an arm that does not read the hook
LibSkipRead ==
    /\ ffi.pc = "script"
    /\ ffi' = [ffi EXCEPT !.pc = "write"]
    /\ UNCHANGED <<heap, hostVars, pipeVars>>

\* echo-script, lines 27-35: DynamicScript::write serializes the output into
\* a new FFiData; the function returns it to the host, dropping the FFiData
\* it was given if it still holds it
LibWrite(T, out, slack) ==
    /\ ffi.pc = "write"
    /\ heap' = Append(IF heap[ffi.input].freed_by = <<>>
                      THEN DroppedBy(heap, ffi.input, "lib") ELSE heap,
                      [serialize_from(T, out, slack, "lib") EXCEPT !.owner = "host"])
    /\ ffi' = [ffi EXCEPT !.pc = "output", !.output = Len(heap) + 1]
    /\ UNCHANGED <<hostVars, pipeVars>>

\* The type the host deserializes the latest FFiData as: ScriptInfo at line
\* 207, the hook's Output at line 345
ExpectedType(f) == IF f.pc = "info" THEN "ScriptInfo" ELSE OutputType(f.hook)

\* lines 207 and 345: FFiData::deserialize on what the library returned
HostDeserialize ==
    /\ ffi.pc \in {"info", "output"}
    /\ ffi' = [ffi EXCEPT !.got = FFiData_deserialize(heap[ffi.output], ExpectedType(ffi)),
                          !.pc = IF ffi.pc = "info" THEN "info_drop" ELSE "output_drop"]
    /\ heap' = ReadBy(heap, ffi.output)
    /\ UNCHANGED <<hostVars, pipeVars>>

\* What the call returns once the FFiData is dropped: the bincode error of
\* deserialize through `?`, else the version check of line 208 or the output
ffi_result(pc, got, version) ==
    IF got.res.state # "ok"
    THEN FromBincodeError(IF got.res.state = "short" THEN "UnexpectedEof"
                          ELSE "InvalidData")
    ELSE IF pc = "info_drop" /\ ~Matches(got.res.val.version_requirement, version)
         THEN ScriptVersionMismatch(version, got.res.val.version_requirement)
    ELSE Ok(got.res.val)

\* lines 207 and 342-346: the FFiData the library returned is dropped by the
\* host, at the end of the statement or of the block, on Ok and on Err
HostDrop ==
    /\ ffi.pc \in {"info_drop", "output_drop"}
    /\ heap' = DroppedBy(heap, ffi.output, "host")
    /\ ffi' = [ffi EXCEPT !.pc = "idle", !.calls = @ + 1,
                          !.res = ffi_result(ffi.pc, ffi.got, ffi.version)]
    /\ UNCHANGED <<hostVars, pipeVars>>

FfiNext ==
    \/ \E lib \in LibPaths, T \in {"ScriptInfo", "Usize"}, slack \in 0..MaxSlack :
          LoadDynamicLibrary(lib, T, slack)
    \/ \E lib \in LibPaths, H \in HookNames, slack \in 0..MaxSlack :
          \E v \in HookValues(H) : TriggerDynamicLib(lib, H, v, slack)
    \/ FfiCall
    \/ \E T \in {"String", "Unit", "Usize"}, unwound \in BOOLEAN : LibRead(T, unwound)
    \/ LibSkipRead
    \/ \E T \in {"String", "Usize"}, slack \in 0..MaxSlack :
          \E out \in LibOutputs(T, ffi.got) : LibWrite(T, out, slack)
    \/ HostDeserialize
    \/ HostDrop

FfiSpec == FfiInit /\ [][FfiNext]_vars

----------------------------------------------------------------------------
(* Properties of the FFiData buffers *)

\* C15: along every library discovery and every DynamicLib dispatch, the
\* paths where a deserialize fails included, no buffer is freed twice, none
\* is read after it was freed, and a buffer is freed by the side that owns
\* it then: the buffer the host made is freed by the library and never by
\* the host, the buffer the library returned is freed by the host and never
\* by the library.  Once the library has returned, the buffer it was given
\* has been freed once; once the host's call has returned, Ok or Err, every
\* buffer of the call has been freed once.
C15_EachBufferFreedOnceByItsOwner ==
    \A id \in 1..Len(heap) :
       /\ Len(heap[id].freed_by) <= 1
       /\ ~heap[id].read_after_free
       /\ heap[id].freed_by # <<>> => heap[id].freed_by[1] = heap[id].owner
       /\ \A k \in 1..Len(heap[id].freed_by) :
             heap[id].freed_by[k] # heap[id].made_by
       /\ (ffi.pc \in {"output", "output_drop"} /\ id = ffi.input)
             => Len(heap[id].freed_by) = 1
       /\ ffi.pc = "idle" => Len(heap[id].freed_by) = 1

\* A dispatch returned the Err of the host's deserialize, after the library
\* read the hook: both buffers of the call were freed
C15_Witness ==
    /\ ffi.pc = "idle"
    /\ ffi.hook = "Eval"
    /\ ~ffi.res.ok
    /\ Len(heap) = 2
    /\ heap[1].made_by = "host" /\ heap[1].freed_by = <<"lib">>
    /\ heap[2].made_by = "lib" /\ heap[2].freed_by = <<"host">>

\* C16: a buffer made by serialize_from(v) has len <= cap and holds the
\* encoding of v in its first len bytes; deserialize reads the first len
\* bytes of the buffer and no more, and, asked for the type of v, returns v
\* having used all of them.
C16_SerializeFromThenDeserialize ==
    /\ \A id \in 1..Len(heap) :
          /\ heap[id].len <= heap[id].cap
          /\ heap[id].cap = Len(heap[id].mem)
          /\ SubSeq(heap[id].mem, 1, heap[id].len) = serialize(heap[id].T, heap[id].v)
    /\ ffi.got # <<>> =>
          LET id == IF ffi.pc \in {"write", "aborted", "output"}
                    THEN ffi.input ELSE ffi.output
          IN  /\ ffi.got.slice = heap[id].len
              /\ ffi.got.T = heap[id].T =>
                    /\ ffi.got.res.state = "ok"
                    /\ ffi.got.res.val = heap[id].v
                    /\ ffi.got.res.rest = <<>>

\* The host deserialized the number a library returned in a buffer whose
\* capacity is larger than its length
C16_Witness ==
    /\ ffi.pc = "output_drop"
    /\ heap[ffi.output].cap > heap[ffi.output].len
    /\ ffi.got.T = "Usize" /\ heap[ffi.output].T = "Usize"
    /\ ffi.got.res.val = 300

----------------------------------------------------------------------------
(* Properties of one dispatch over the pipes *)

\* C17: the system calls of one dispatch to a process, after the spawn of a
\* OneShot endpoint, are in this order the write of Execute, the write of
\* the hook name, the write of the hook and the read of the output, all on
\* the process of the dispatch; a call that fails is the last one, so the
\* read is made only after three writes that succeeded, and a dispatch in
\* which a write failed has returned an error without a read.
C17_ThreeWritesThenOneRead ==
    (HasEndpoint("Daemon") \/ HasEndpoint("OneShot")) /\ (Dispatching \/ (host.pc = "idle" /\ host.calls > 0)) =>
        LET off == IF host.script.script.kind = "OneShot" THEN 1 ELSE 0
            n == Len(host.eff) - off
            order == <<"Execute", host.hook, HookInput(host.hook), "Output">>
        IN  /\ n \in 0..4
            /\ \A k \in 1..n :
                  /\ host.eff[off + k].op = IF k < 4 THEN "write" ELSE "read"
                  /\ host.eff[off + k].data = order[k]
                  /\ k < n => host.eff[off + k].ok
            /\ host.pc = "execute" => n = 0
            /\ host.pc = "hook_name" => n = 1
            /\ host.pc = "hook" => n = 2
            /\ host.pc = "output" => n = 3 /\ \A k \in 1..3 : host.eff[off + k].ok
            /\ host.pc = "idle" =>
                  /\ n >= 1
                  /\ host.res.ok = host.eff[off + n].ok
                  /\ host.res.ok => n = 4
                  /\ (\E k \in 1..n : host.eff[off + k].op = "write" /\ ~host.eff[off + k].ok)
                        => /\ ~host.res.ok
                           /\ \A k \in 1..n : host.eff[off + k].op # "read"

\* A dispatch to a daemon returned the error of its third write: the
\* process ended after it was sent the hook name
C17_Witness ==
    /\ HasEndpoint("Daemon")
    /\ host.pc = "idle"
    /\ host.calls > 0
    /\ ~host.res.ok
    /\ Len(host.eff) = 3
    /\ host.eff[3].op = "write" /\ host.eff[3].data = "x" /\ ~host.eff[3].ok

\* C18: when start_script has returned an endpoint, and whenever a dispatch
\* has returned Ok, the process that served the call (the daemon; for a
\* OneShot endpoint the process spawned for the call) has read every value
\* the host wrote to it, in the order written: the Greeting at discovery,
\* then per dispatch the Execute message, the hook name and the hook; the
\* host has read every value the process wrote; no byte is left in either
\* pipe.
C18_PipesEmptyBetweenCalls ==
    ((HasEndpoint("Daemon") \/ HasEndpoint("OneShot")) /\ host.pc = "idle" /\ host.res.ok) =>
        LET c == children[IF host.script.script.kind = "Daemon"
                          THEN host.script.script.child ELSE Len(children)]
            first == IF host.script.script.kind = "OneShot" /\ host.calls > 0
                     THEN <<>> ELSE <<"Greeting">>
        IN  /\ c.stdin = <<>>
            /\ c.stdout = <<>>
            /\ c.got = c.sent
            /\ Len(c.sent) = Len(first) + 3 * (IF host.script.script.kind = "Daemon"
                                               THEN host.calls
                                               ELSE IF host.calls > 0 THEN 1 ELSE 0)
            /\ SubSeq(c.sent, 1, Len(first)) = first
            /\ TriplesFrom(c.sent, Len(first) + 1, host.script.metadata.hooks)

\* A daemon has served two dispatches, the latest one of the hook that
\* encodes to no byte, and has read all seven values it was sent
C18_Witness ==
    /\ HasEndpoint("Daemon")
    /\ host.pc = "idle"
    /\ host.calls = 2
    /\ host.res.ok
    /\ host.hook = "RandomNumber"
    /\ children[host.script.script.child].got
          = children[host.script.script.child].sent
    /\ Len(children[host.script.script.child].got) = 7
    /\ children[host.script.script.child].stdin = <<>>

----------------------------------------------------------------------------
(* Properties of what a dispatch leaves alone *)

\* C19: no dispatch, whether it returns Ok or an error, changes the
\* registry: after a pull of the fan-out or a direct trigger every endpoint
\* is at the index it had, with the metadata, the Active/Inactive state and
\* the transport (kind, path, child) it had; so an endpoint whose dispatch
\* returned an I/O or codec error is still registered as it was.
C19_DispatchLeavesRegistryAlone ==
    [][ lastCall'.op \in {"next", "script_trigger"} => scripts' = scripts ]_vars

\* A direct trigger on an Inactive daemon whose child was killed returned an
\* error of the transport; the endpoint is registered, Inactive, with the
\* same child
C19_Witness ==
    /\ lastCall.op = "script_trigger"
    /\ ~lastCall.res.ok
    /\ lastCall.res.err \in {"Io", "Bincode"}
    /\ lastCall.ep \in 1..Len(scripts)
    /\ scripts[lastCall.ep].state = "Inactive"
    /\ DaemonKilled(lastCall.ep)
    /\ effects # <<>>
    /\ effects[1].pid = scripts[lastCall.ep].script.child

\* C20: while the iterator of ScriptManager::trigger<H> lives, an endpoint
\* that is Inactive or does not listen for H is left alone by every step:
\* no write, spawn or library call names it, it yields nothing, and its
\* registry entry, with its state, stays as it is.
C20_SkippedEndpointUntouched ==
    [][ iter'.live =>
          \A e \in 1..Len(scripts) :
             ~Matching(e, iter'.hook) =>
                /\ e \notin touched'
                /\ \A k \in 1..Len(effects') : effects'[k].ep # e
                /\ \A k \in 1..Len(iter'.out) : iter'.out[k].from # e
                /\ scripts'[e] = scripts[e] ]_vars

\* A fan-out ran to its end and yielded one element, while an Active daemon
\* that does not listen for the hook, its child alive, was passed over
C20_Witness ==
    /\ iter.live /\ iter.done
    /\ Len(iter.out) = 1
    /\ \E e \in 1..Len(scripts) :
          /\ scripts[e].state = "Active"
          /\ ~Listens(e, iter.hook)
          /\ scripts[e].script.kind = "Daemon"
          /\ procs[scripts[e].script.child].alive
          /\ e \notin touched

----------------------------------------------------------------------------
(* Script level: one process running Scripter::execute (scripting.rs        *)
(* 106-149) whose stdin is written by any program: the values it is sent    *)
(* are chosen freely, a Message, a hook name or a hook at a time.           *)

MaxFrames == 4

ScriptPaths == {"evaluator", "randomize", "newer"}

ScriptInit ==
    /\ scripts = <<>>
    /\ procs = <<>>
    /\ iter = NoIter
    /\ effects = <<>>
    /\ lastCall = Call("default", 0, "", <<>>, <<>>, Ok(<<>>))
    /\ touched = {}
    /\ dropped = FALSE
    /\ heap = <<>>
    /\ ffi = NoFfi
    /\ host = NoHost
    /\ \E path \in ScriptPaths : children = <<Child(path)>>

\* The writer sends one more value down the script's stdin
StdinWrite(T, v) ==
    /\ children[1].open
    /\ Len(children[1].sent) < MaxFrames
    /\ pipe_write(children[1], T, v).ok
    /\ children' = [children EXCEPT ![1] = pipe_write(@, T, v).c]
    /\ UNCHANGED <<host, hostVars, ffiVars>>

\* The writer closes its ends of the pipes
StdinClose ==
    /\ children[1].open
    /\ children' = Dropped(children, 1)
    /\ UNCHANGED <<host, hostVars, ffiVars>>

ScriptNext ==
    \/ \E m \in {"Greeting", "Execute"} : StdinWrite("Message", m)
    \/ \E H \in HookNames : StdinWrite("String", H)
    \/ \E H \in HookNames : StdinWrite(HookType(H), HookInput(H))
    \/ StdinClose
    \/ ScriptStep(1)

ScriptSpec == ScriptInit /\ [][ScriptNext]_vars

----------------------------------------------------------------------------
(* Properties of the script-side runtime *)

\* The script has written its ScriptInfo as the first thing on its stdout
InfoWritten(c) ==
    /\ deserialize("ScriptInfo", c.stdout).state = "ok"
    /\ deserialize("ScriptInfo", c.stdout).val = Files[c.path].info

\* What C21 states: the first value read is a Message; ScriptInfo is written
\* exactly when it is Greeting, after which a OneShot script reads nothing
\* further and a Daemon script reads a Message, then a String; when it
\* is Execute no ScriptInfo is written and the next value read is the hook
\* name, for any script, a OneShot script reading one hook name and one hook.
C21_ExecuteGoesStraightToHookName ==
    LET c == children[1]
        once == Files[c.path].info.script_type = "OneShot"
    IN  /\ Len(c.got) >= 1 => c.got[1] \in {"Greeting", "Execute"}
        /\ (c.got = <<>> \/ c.got[1] = "Execute") => ~InfoWritten(c)
        /\ (Len(c.got) >= 1 /\ c.got[1] = "Greeting") =>
              /\ c.pc \in {"loop", "name", "func"} => InfoWritten(c)
              /\ once => Len(c.got) = 1 /\ c.pc \in {"info", "exited"}
              /\ Len(c.got) >= 2 => c.got[2] \in {"Greeting", "Execute"}
              /\ Len(c.got) >= 3 => c.got[3] \notin {"Greeting", "Execute"}
        /\ (Len(c.got) >= 2 /\ c.got[1] = "Execute") =>
              /\ c.got[2] \notin {"Greeting", "Execute"}
              /\ once => Len(c.got) <= 3

\* C21, with what a Daemon script does after a first Execute: the first
\* value read is a Message; ScriptInfo is written exactly when it is
\* Greeting, after which a OneShot script reads nothing further and a
\* Daemon script enters its loop; when it is Execute no ScriptInfo is
\* written, a OneShot script reads the hook name next, makes one handler
\* pass and returns, and a Daemon script reads one more Message before the
\* hook name, as at the head of every pass of its loop.
C21_GreetingRepliedExecuteServed ==
    LET c == children[1]
        once == Files[c.path].info.script_type = "OneShot"
    IN  /\ Len(c.got) >= 1 => c.got[1] \in {"Greeting", "Execute"}
        /\ (c.got = <<>> \/ c.got[1] = "Execute") => ~InfoWritten(c)
        /\ (Len(c.got) >= 1 /\ c.got[1] = "Greeting") =>
              /\ c.pc \in {"loop", "name", "func"} => InfoWritten(c)
              /\ once => Len(c.got) = 1 /\ c.pc \in {"info", "exited"}
              /\ Len(c.got) >= 2 => c.got[2] \in {"Greeting", "Execute"}
              /\ Len(c.got) >= 3 => c.got[3] \notin {"Greeting", "Execute"}
        /\ (Len(c.got) >= 2 /\ c.got[1] = "Execute") =>
              IF once
              THEN /\ c.got[2] \notin {"Greeting", "Execute"}
                   /\ Len(c.got) <= 3
                   /\ Len(c.got) = 3 => c.pc = "exited"
              ELSE /\ c.got[2] \in {"Greeting", "Execute"}
                   /\ Len(c.got) >= 3 => c.got[3] \notin {"Greeting", "Execute"}

\* A OneShot script was sent Execute first: it wrote no ScriptInfo, made one
\* handler pass, wrote the output and returned
C21_Witness ==
    /\ Files[children[1].path].info.script_type = "OneShot"
    /\ children[1].got = <<"Execute", "Eval", "x">>
    /\ children[1].pc = "exited"
    /\ children[1].stdout = serialize("String", "x")

----------------------------------------------------------------------------
(* Properties of executable discovery, one system call at a time *)

\* C22: the endpoint start_script returns carries the ScriptInfo the script
\* reported, and its transport follows from the reported script_type alone:
\* it holds the spawned Child (Daemon transport) exactly when the type is
\* Daemon; for any other type, DynamicLib included, the Child has been
\* dropped and the endpoint records the executable's path and no child
\* (OneShot transport).
C22_TransportFromScriptTypeAlone ==
    host.pc \notin {"off", "new", "greet", "info", "failed"} =>
        /\ host.script.metadata = Files[children[1].path].info
        /\ host.script.script.kind = "Daemon"
              <=> host.script.metadata.script_type = "Daemon"
        /\ host.script.metadata.script_type = "Daemon" =>
              /\ host.script.script = Daemon(1)
              /\ host.pc # "dropped" => children[1].open
        /\ host.script.metadata.script_type # "Daemon" =>
              /\ host.script.script = OneShot(children[1].path)
              /\ ~children[1].open

\* start_script returned an endpoint for an executable that reports the
\* type DynamicLib: a OneShot transport with the path, the Child dropped
C22_Witness ==
    /\ host.pc = "idle"
    /\ host.calls = 0
    /\ host.script.metadata.script_type = "DynamicLib"
    /\ host.script.script = OneShot("plugin")
    /\ ~children[1].open

\* C23: start_script on a script that answers the Greeting and exits makes
\* one write (the Greeting) and one read (the ScriptInfo) on the child and
\* nothing after them, whether or not the child has exited by then, and it
\* always returns: once the child is spawned the call ends, with the
\* endpoint or with an error.
C23_OneShotDiscoveryReturns ==
    /\ [](Files[IF children = <<>> THEN "true" ELSE children[1].path].info.script_type
             = "OneShot" =>
            /\ \A k \in 1..Len(host.eff) :
                  host.eff[k].pid = 1 =>
                     /\ k <= 3
                     /\ host.eff[k].op = <<"spawn", "write", "read">>[k]
            /\ children[1].sent \in {<<>>, <<"Greeting">>}
            /\ host.pc \notin {"new", "greet", "info"} => ~children[1].open)
    /\ (host.pc \in {"greet", "info"}
          /\ Files[children[1].path].info.script_type = "OneShot")
       ~> (host.pc \in {"idle", "failed"})

\* The host is about to read the ScriptInfo of a OneShot script that has
\* written it and has exited already
C23_Witness ==
    /\ host.pc = "info"
    /\ Files[children[1].path].info.script_type = "OneShot"
    /\ ~children[1].alive
    /\ children[1].pc = "exited"
    /\ deserialize("ScriptInfo", children[1].stdout).state = "ok"

----------------------------------------------------------------------------
(* Properties of a dispatch to a process that ends *)

\* The host has written the three values of a dispatch and waits for the
\* output of a process that has ended without writing one
ReadPendingOnDeadScript ==
    /\ host.pc = "output"
    /\ ~children[host.child].alive
    /\ deserialize(OutputType(host.hook), children[host.child].stdout).state = "short"

\* The latest dispatch returned an error of the codec or of I/O from its read
ReadFailed ==
    /\ host.pc = "idle"
    /\ host.calls > 0
    /\ ~host.res.ok
    /\ host.res.err \in {"Bincode", "Io"}
    /\ host.eff[Len(host.eff)].op = "read"
    /\ ~host.eff[Len(host.eff)].ok

\* C24: when the process a dispatch has written its request to ends before
\* it writes the output, the host's read does not wait: it can return at
\* once, it does return, and the dispatch gives an Err of the codec or I/O
\* kind, the end of the stream; a dispatch whose read failed never returns
\* Ok.
C24_ReadOnDeadScriptReturnsErr ==
    /\ [](ReadPendingOnDeadScript =>
             /\ ~pipe_read(children[host.child], OutputType(host.hook)).blocked
             /\ ~pipe_read(children[host.child], OutputType(host.hook)).ok
             /\ pipe_read(children[host.child], OutputType(host.hook)).cause
                   = "UnexpectedEof")
    /\ ReadPendingOnDeadScript ~> ReadFailed

\* A daemon was sent a whole request and ended before it answered: the
\* dispatch returned the error of its read
C24_Witness ==
    /\ ReadFailed
    /\ host.script.script.kind = "Daemon"
    /\ host.res.cause = "UnexpectedEof"
    /\ children[1].sent = <<"Greeting", "Execute", host.hook, HookInput(host.hook)>>
    /\ ~children[1].alive
    /\ children[1].stdout = <<>>

----------------------------------------------------------------------------
(* Properties of the Active/Inactive state *)

\* C25: discovery, of executables and of libraries, appends every endpoint
\* in state Active and leaves the endpoints already there as they are; the
\* state of an endpoint changes in no step but an activate() or a
\* deactivate() of that endpoint; after activate() is_active() is true and
\* after deactivate() it is false, until the next of the two calls.
C25_ActiveUntilToggled ==
    [][ /\ Len(scripts') >= Len(scripts)
        /\ \A e \in 1..Len(scripts') :
              IF e > Len(scripts)
              THEN IsAdd(lastCall'.op) /\ is_active(scripts'[e])
              ELSE scripts'[e].state # scripts[e].state =>
                      /\ lastCall'.op \in {"activate", "deactivate"}
                      /\ lastCall'.ep = e
        /\ lastCall'.op = "activate" => is_active(scripts'[lastCall'.ep])
        /\ lastCall'.op = "deactivate" => ~is_active(scripts'[lastCall'.ep]) ]_vars

\* A library endpoint and an executable endpoint were appended Active; the
\* library endpoint was deactivated, activated and deactivated again
C25_Witness ==
    /\ lastCall.op = "deactivate"
    /\ scripts[lastCall.ep].script.kind = "DynamicLib"
    /\ ~is_active(scripts[lastCall.ep])
    /\ \E e \in 1..Len(scripts) :
          scripts[e].script.kind = "Daemon" /\ is_active(scripts[e])

----------------------------------------------------------------------------
(* The display form of Error (error.rs 22-46) *)

\* Display for semver::Version
VersionText(v) ==
    CASE v = V010 -> "0.1.0"
      [] v = V020 -> "0.2.0"
      [] v = V030 -> "0.3.0"
      [] OTHER -> ""

\* Display for Error: the pieces write! puts out, in order
fmt(error) ==
    CASE error.err = "ScriptIsNotListeningForHook" ->
           <<"Could not trigger the hook, because the script is not listening for it">>
      [] error.err = "ScriptVersionMismatch" ->
           LET program_version == error.actual
               script_version == error.required
           IN  <<"The scripts requires version: ", VersionText(program_version),
                 ", but the program have version: ", VersionReqText(script_version)>>
      [] error.err = "DynamicLibError" ->
           <<"Failed to load dynamic library:\n", error.cause>>
      [] OTHER -> <<error.cause>>

\* C26: the display form of ScriptVersionMismatch gives the script's version
\* requirement (program_required_version) as the version the script
\* requires, and the host's version (program_actual_version) as the version
\* the program has.
C26_DisplayNamesEachVersion ==
    (~lastCall.res.ok /\ lastCall.res.err = "ScriptVersionMismatch") =>
        fmt(lastCall.res)
            = <<"The scripts requires version: ", VersionReqText(lastCall.res.required),
                ", but the program have version: ", VersionText(lastCall.res.actual)>>

----------------------------------------------------------------------------
(* Properties of the host with scripts that conform *)

\* The host is at a read that cannot return yet
HostBlocked ==
    \/ host.pc = "info" /\ pipe_read(children[host.child], "ScriptInfo").blocked
    \/ host.pc = "output"
          /\ pipe_read(children[host.child], OutputType(host.hook)).blocked

\* C27: with scripts that run Scripter::execute and whose handler reads the
\* hook and writes the output, and processes that nothing ends from outside,
\* the host is never at a read that cannot return while the process it
\* reads from cannot take a step either; every dispatch that has returned
\* has returned Ok; and every dispatch that was entered returns.
C27_NoDeadlockAndEveryDispatchOk ==
    /\ [](HostBlocked =>
             /\ children[host.child].alive
             /\ ~execute(children[host.child]).blocked)
    /\ []((host.pc = "idle" /\ host.calls > 0) => host.res.ok)
    /\ Dispatching ~> (host.pc = "idle" /\ host.res.ok)

\* In its second dispatch to a daemon the host waits for the output while
\* the script has yet to read the request
C27_Witness ==
    /\ host.pc = "output"
    /\ host.calls = 1
    /\ host.script.script.kind = "Daemon"
    /\ HostBlocked
    /\ children[host.child].stdin # <<>>

----------------------------------------------------------------------------
(* The children of start_script when it returns *)

\* start_script has returned and no call of the host is under way
StartScriptReturned == host.pc \in {"idle", "failed", "dropped"}

\* C28: when start_script has returned, every process of a Daemon script
\* that is still alive is the Child of the registered Daemon endpoint, the
\* one Script::end kills.
C28_NoDaemonChildLeftUnowned ==
    StartScriptReturned =>
        \A pid \in 1..Len(children) :
            (children[pid].alive
                /\ Files[children[pid].path].info.script_type = "Daemon")
            => (host.pc = "idle" /\ host.script.script = Daemon(pid))

====
